---- MODULE Spec2Model ----
(***************************************************************************)
(* Model of the plan-to-deployment pipeline of sfdc-engine-x-api:          *)
(* app/services/deploy_service.py driving app/services/salesforce.py,      *)
(* app/services/token_manager.py and app/services/metadata_builder.py.     *)
(*                                                                         *)
(* One invocation of one orchestrator function is modelled per behaviour.  *)
(* The remote platform, the credential broker and the database are the     *)
(* environment: every remote call picks its outcome nondeterministically   *)
(* among the outcomes the callee's code can produce (a returned value or a *)
(* raised HTTPException).                                                  *)
(*                                                                         *)
(* API names are sequences of dot-free segments: <<"A__c">> is the object  *)
(* "A__c", <<"A__c", "f__c">> is the field "A__c.f__c", <<"A__c", "">> is  *)
(* "A__c." and <<"">> is the empty string.                                *)
(*                                                                         *)
(* deploy_service.py passes provider_config_key to the salesforce.py       *)
(* functions, whose definitions in this tree do not declare it; the model  *)
(* binds each call by the parameters the callee declares and follows the   *)
(* callee's body.                                                          *)
(***************************************************************************)
EXTENDS Integers, Sequences, FiniteSets, TLC

\* ---------------------------------------------------------------- bounds
\* Number of plan nodes of an input plan: custom objects, their fields and
\* relationships, standard-object entries and their fields.
MaxPlanSize == 3

\* Number of components of the prior Deployment Result handed to a rollback.
MaxPrior == 2

\* Number of records handed to push_records.
MaxRecords == 450

\* Number of planned fields of one object entry handed to check_conflicts.
MaxPlanFields == 2

\* Largest integer given as the precision, scale or length of a field.
MaxNumber == 2

\* Number of report folders and of reports of an analytics plan handed to
\* validate_analytics_plan.
MaxReportFolders == 2
MaxReports == 2

\* Number of rollback requests made for one deployment record.
MaxRequests == 2

\* ------------------------------------------------------ program constants
PollInterval == 3
Timeout == 120
HttpTimeout == 30
SFDC_COMPOSITE_BATCH_SIZE == 200

\* --------------------------------------------------------- input universes
ObjectNames == {"A__c", "B__c"}
FieldNames == {"f__c"}
RelationshipNames == {"r__c"}
StandardObjects == {"Account"}
StandardFieldNames == {"s__c", ""}

TerminalStates == {"Succeeded", "Failed", "Canceled"}

FieldLike == {"custom_field", "relationship"}

NoId == "none"
NoError == "none"

\* -------------------------------------------------------------- sequences
SeqsUpTo(S, n) == UNION {[1..k -> S] : k \in 0..n}

\* ------------------------------------------------------------------ names
\* "." in api_name
HasDot(n) == Len(n) >= 2

\* api_name.split(".", 1)
SplitFirst(n) == [object |-> <<n[1]>>, field |-> Tail(n)]

EndsWithCustomSuffix(simple) == simple \in ObjectNames

\* ------------------------------------------------- deploy_service helpers
\* _resolve_deployment_status(total, succeeded)
MutResolveDeploymentStatusEmptySucceeds(total, succeeded) ==
    IF succeeded = total THEN "succeeded"
    ELSE IF succeeded = 0 THEN "failed"
    ELSE "partial"

ResolveDeploymentStatus(total, succeeded) ==
    IF total = 0 \/ succeeded = 0 THEN "failed"
    ELSE IF succeeded = total THEN "succeeded"
    ELSE "partial"

\* A status payload of the remote platform: shape "nested" carries
\* deployResult = {status, details: {componentSuccesses, componentFailures}},
\* shape "flat" carries only a top-level status.
\* _metadata_status(metadata_result)
MetadataStatus(p) == IF p.status # "" THEN p.status ELSE "Unknown"

\* _metadata_component_maps(metadata_result): entries without a fullName
\* are dropped, the maps are keyed by fullName.
MetadataComponentMaps(p) ==
    IF p.shape # "nested"
    THEN [success_map |-> <<>>, failure_map |-> <<>>]
    ELSE [success_map |->
              [n \in p.successes \ {<<"">>} |-> [fullName |-> n, id |-> "cid"]],
          failure_map |->
              [n \in p.failures \ {<<"">>} |->
                  [fullName |-> n, problemType |-> "Error"]]]

\* _metadata_failure_to_error(failure): the error code
MetadataFailureToError(failure) ==
    IF failure.problemType # "" THEN failure.problemType
    ELSE "metadata_deploy_failed"

\* _normalize_error(error) for a dict detail: the error code
NormalizeError(detail_code) ==
    IF detail_code # "" THEN detail_code ELSE "unknown_error"

\* _metadata_failure_component(component_type, api_name, detail)
MetadataFailureComponent(planned_component, k, detail_code) ==
    [type |-> planned_component.type,
     api_name |-> planned_component.api_name,
     success |-> FALSE,
     sfdc_id |-> NoId,
     error |-> NormalizeError(detail_code),
     origin |-> "bulk",
     idx |-> k]

\* The three-way resolution of one planned component against the maps and
\* the overall status (execute_deployment, lines 879-903; the same text is
\* in the workflow, analytics and rollback variants).
MutProvisionalSuccessFirst(api_name, maps, deploy_status) ==
    LET failed == api_name \in DOMAIN maps.failure_map
        present == api_name \in DOMAIN maps.success_map
    IN  present \/ (~failed /\ deploy_status = "Succeeded")

ProvisionalSuccess(api_name, maps, deploy_status) ==
    LET failed == api_name \in DOMAIN maps.failure_map
        present == api_name \in DOMAIN maps.success_map
        success == present /\ ~failed
    IN  IF ~success /\ ~failed /\ deploy_status = "Succeeded"
        THEN TRUE
        ELSE success

ProvisionalResult(planned_component, k, maps, deploy_status) ==
    LET n == planned_component.api_name
        success == ProvisionalSuccess(n, maps, deploy_status)
    IN  [type |-> planned_component.type,
         api_name |-> n,
         success |-> success,
         sfdc_id |-> IF n \in DOMAIN maps.success_map
                     THEN maps.success_map[n].id ELSE NoId,
         error |-> IF success THEN NoError
                   ELSE IF n \in DOMAIN maps.failure_map
                        THEN MetadataFailureToError(maps.failure_map[n])
                        ELSE "metadata_deploy_failed",
         origin |-> "bulk",
         idx |-> k]

CountSuccess(cs) == Cardinality({k \in 1..Len(cs) : cs[k].success})

\* _extract_tooling_error(response) of an unsuccessful tooling response
\* whose errors list holds one parsed error
ExtractToolingError(response) ==
    IF response.errors # <<>> THEN NormalizeError(response.errors[1])
    ELSE "salesforce_request_failed"

\* --------------------------------------------------------- plan universes
\* A custom object entry of a plan; names may be empty (the validator's
\* business), fields precede relationships in the planned order.
ObjectEntriesOfSize(n) ==
    {[api_name |-> o, fields |-> fs, relationships |-> rs] :
        o \in ObjectNames \cup {""},
        fs \in SeqsUpTo(FieldNames \cup {""}, n - 1),
        rs \in SeqsUpTo(RelationshipNames, n - 1)}

ObjectEntrySize(e) == 1 + Len(e.fields) + Len(e.relationships)

ObjectEntries(budget) ==
    {e \in ObjectEntriesOfSize(budget) : ObjectEntrySize(e) <= budget}

RECURSIVE CustomObjectLists(_)
CustomObjectLists(budget) ==
    {<<>>} \cup
    UNION {{<<e>> \o rest : rest \in CustomObjectLists(budget - ObjectEntrySize(e))} :
              e \in ObjectEntries(budget)}

StandardEntries(budget) ==
    {[object |-> o, fields |-> fs] :
        o \in StandardObjects,
        fs \in SeqsUpTo(StandardFieldNames, budget - 1) \ {<<>>}}

StandardEntrySize(e) == 1 + Len(e.fields)

RECURSIVE StandardLists(_)
StandardLists(budget) ==
    {<<>>} \cup
    UNION {{<<e>> \o rest : rest \in StandardLists(budget - StandardEntrySize(e))} :
              e \in StandardEntries(budget)}

RECURSIVE ListSize(_)
ListSize(objs) ==
    IF objs = <<>> THEN 0 ELSE ObjectEntrySize(Head(objs)) + ListSize(Tail(objs))

DeployPlans ==
    UNION {{[custom_objects |-> objs, standard_object_fields |-> std] :
               std \in StandardLists(MaxPlanSize - ListSize(objs))} :
              objs \in CustomObjectLists(MaxPlanSize)}

\* ------------------------------------------------------------- validation
\* validate_custom_object_plan(plan), restricted to the api_name rules: the
\* set of error paths. standard_object_fields is not looked at.
RECURSIVE ObjectErrors(_, _)
ObjectErrors(objs, k) ==
    IF k > Len(objs) THEN {}
    ELSE LET o == objs[k] IN
         (IF o.api_name = "" \/ ~EndsWithCustomSuffix(o.api_name)
          THEN {<<"custom_objects", k, "api_name">>} ELSE {})
         \cup {<<"custom_objects", k, "fields", f, "api_name">> :
                  f \in {x \in 1..Len(o.fields) : o.fields[x] = ""}}
         \cup {<<"custom_objects", k, "relationships", r, "api_name">> :
                  r \in {x \in 1..Len(o.relationships) : o.relationships[x] = ""}}
         \cup ObjectErrors(objs, k + 1)

ValidateCustomObjectPlan(p) == ObjectErrors(p.custom_objects, 1)

\* ------------------------------------------------------ plan partitioning
\* execute_deployment, lines 781-801: objects with a non-empty name
RECURSIVE MetadataCustomObjects(_)
MetadataCustomObjects(objs) ==
    IF objs = <<>> THEN <<>>
    ELSE (IF Head(objs).api_name # "" THEN <<Head(objs)>> ELSE <<>>)
         \o MetadataCustomObjects(Tail(objs))

InvalidPlanComponent(type, name) ==
    [type |-> type, api_name |-> name, success |-> FALSE, sfdc_id |-> NoId,
     error |-> "invalid_plan", origin |-> "invalid", idx |-> 0]

RECURSIVE InvalidObjectComponents(_)
InvalidObjectComponents(objs) ==
    IF objs = <<>> THEN <<>>
    ELSE (IF Head(objs).api_name = ""
          THEN <<InvalidPlanComponent("custom_object", <<"">>)>> ELSE <<>>)
         \o InvalidObjectComponents(Tail(objs))

RECURSIVE NamedChildren(_, _, _)
NamedChildren(object_api_name, type, names) ==
    IF names = <<>> THEN <<>>
    ELSE (IF Head(names) # ""
          THEN <<[type |-> type, api_name |-> <<object_api_name, Head(names)>>]>>
          ELSE <<>>)
         \o NamedChildren(object_api_name, type, Tail(names))

RECURSIVE UnnamedChildren(_, _, _)
UnnamedChildren(object_api_name, type, names) ==
    IF names = <<>> THEN <<>>
    ELSE (IF Head(names) = ""
          THEN <<InvalidPlanComponent(type, <<object_api_name, "">>)>>
          ELSE <<>>)
         \o UnnamedChildren(object_api_name, type, Tail(names))

\* execute_deployment, lines 804-866: planned_custom_components
RECURSIVE PlannedCustomComponents(_)
PlannedCustomComponents(mobjs) ==
    IF mobjs = <<>> THEN <<>>
    ELSE LET o == Head(mobjs) IN
         <<[type |-> "custom_object", api_name |-> <<o.api_name>>]>>
         \o NamedChildren(o.api_name, "custom_field", o.fields)
         \o NamedChildren(o.api_name, "relationship", o.relationships)
         \o PlannedCustomComponents(Tail(mobjs))

\* execute_deployment, lines 816-828 and 845-857: entries without a name
RECURSIVE InvalidChildComponents(_)
InvalidChildComponents(mobjs) ==
    IF mobjs = <<>> THEN <<>>
    ELSE LET o == Head(mobjs) IN
         UnnamedChildren(o.api_name, "custom_field", o.fields)
         \o UnnamedChildren(o.api_name, "relationship", o.relationships)
         \o InvalidChildComponents(Tail(mobjs))

\* execute_deployment, lines 981-994: the (object, field) pairs of the
\* field-append loop, in order; entries without an object name are skipped.
RECURSIVE StandardFieldList(_)
StandardFieldList(std) ==
    IF std = <<>> THEN <<>>
    ELSE (IF Head(std).object # ""
          THEN [k \in 1..Len(Head(std).fields) |->
                   [object |-> Head(std).object, field |-> Head(std).fields[k]]]
          ELSE <<>>)
         \o StandardFieldList(Tail(std))

\* ------------------------------------------------------------------ state
VARIABLES
    op,          \* the orchestrator function invoked
    plan,        \* its input
    pc,          \* position in the function
    planned,     \* planned_custom_components / planned_components
    components,  \* the components list being assembled
    counters,    \* objects_created, fields_created, relationships_created
    manifest,    \* member names of the package handed to metadata_deploy_and_poll
    payload,     \* metadata_result returned by metadata_deploy_and_poll
    clock,       \* time.monotonic() since the deadline was computed
    i,           \* loop index
    calls,       \* history: calls made to the collaborators, in order
    prov,        \* history: the three-way resolution of each planned component
    exc,         \* detail code of the HTTPException caught or propagating
    db,          \* crm_field_mappings rows of this org and client
    status       \* status of the returned result

vars == <<op, plan, pc, planned, components, counters, manifest, payload,
          clock, i, calls, prov, exc, db, status>>

NoPayload == [shape |-> "none", status |-> "", successes |-> {}, failures |-> {}]

NoRow == [present |-> FALSE]

\* The stored mappings at the time of the call: A__c has a row a human
\* curated (f__c is mapped to another column), B__c has none.
CuratedDb ==
    [o \in {<<x>> : x \in ObjectNames} |->
        IF o = <<"A__c">>
        THEN [present |-> TRUE, sfdc_object |-> <<"Legacy__c">>, is_active |-> FALSE,
              field_mappings |-> [k \in {<<"f__c">>, <<"email">>} |->
                                     IF k = <<"f__c">> THEN <<"Curated__c">>
                                     ELSE <<"Email__c">>]]
        ELSE NoRow]

ZeroCounters == [objects |-> 0, fields |-> 0, relationships |-> 0]

PlannedNames == {planned[k].api_name : k \in 1..Len(planned)}

\* What a terminal status poll can return for the package submitted
Payloads ==
    {[shape |-> "nested", status |-> st, successes |-> sm, failures |-> fm] :
        st \in TerminalStates, sm \in SUBSET PlannedNames, fm \in SUBSET PlannedNames}
    \cup {[shape |-> "flat", status |-> st, successes |-> {}, failures |-> {}] :
             st \in TerminalStates}

\* Detail codes of the HTTPException a salesforce.py call raises: the
\* credential broker failing (get_valid_token) or the platform answering
\* with an error status.
RemoteErrorCodes == {"nango_connection_unavailable", "salesforce_request_failed"}

Call(name, arg) == [fn |-> name, arg |-> arg]

\* metadata_builder.build_custom_object_zip (lines 539-553): the members of
\* package.xml are the object names
PackageXmlForObjects(mobjs) == [k \in 1..Len(mobjs) |-> <<mobjs[k].api_name>>]

\* ---------------------------------------------------- execute_deployment
\* lines 765-866: validate, then partition the plan
MutValidateAfterPartition ==
    /\ pc = "start"
    /\ op = "execute_deployment"
    /\ LET mobjs == MetadataCustomObjects(plan.custom_objects) IN
       /\ components' = InvalidObjectComponents(plan.custom_objects)
                        \o InvalidChildComponents(mobjs)
       /\ planned' = PlannedCustomComponents(mobjs)
       /\ manifest' = PackageXmlForObjects(mobjs)
       /\ pc' = IF mobjs # <<>> THEN "submit" ELSE "append"
    /\ UNCHANGED <<op, plan, counters, payload, clock, i, calls, prov, db, status, exc>>

Validate ==
    /\ pc = "start"
    /\ op = "execute_deployment"
    /\ IF ValidateCustomObjectPlan(plan) # {}
       THEN /\ pc' = "raised"
            /\ exc' = "invalid_deploy_plan"
            /\ UNCHANGED <<planned, components, manifest>>
       ELSE LET mobjs == MetadataCustomObjects(plan.custom_objects) IN
            /\ components' = InvalidObjectComponents(plan.custom_objects)
                             \o InvalidChildComponents(mobjs)
            /\ planned' = PlannedCustomComponents(mobjs)
            /\ manifest' = PackageXmlForObjects(mobjs)
            /\ pc' = IF mobjs # <<>> THEN "submit" ELSE "append"
            /\ exc' = exc
    /\ UNCHANGED <<op, plan, counters, payload, clock, i, calls, prov, db, status>>

\* The except HTTPException clause around the bulk step (lines 967-975):
\* one failure component per planned component.
MutBulkFailureComponentsGlobal(code) ==
    <<MetadataFailureComponent([type |-> "deployment", api_name |-> <<"">>], 0, code)>>

BulkFailureComponents(code) ==
    [k \in 1..Len(planned) |->
        IF op = "execute_rollback"
        THEN \* execute_rollback, lines 1268-1283
             [type |-> "custom_object", api_name |-> planned[k].api_name,
              success |-> FALSE, sfdc_id |-> planned[k].sfdc_id,
              error |-> NormalizeError(code), skipped |-> FALSE,
              origin |-> "bulk", idx |-> planned[k].src]
        ELSE MetadataFailureComponent(planned[k], k, code)]

AfterBulk == IF op = "execute_deployment" THEN "append" ELSE "return"

CatchHTTPException(code) ==
    /\ components' = components \o BulkFailureComponents(code)
    /\ exc' = code
    /\ pc' = AfterBulk
    /\ i' = 1

\* salesforce.metadata_deploy (lines 429-467) as called first by
\* metadata_deploy_and_poll (line 509)
SubmitPackage ==
    /\ pc = "submit"
    /\ calls' = Append(calls, Call("metadata_deploy", manifest))
    /\ \/ /\ pc' = "poll"
          /\ clock' = 0
          /\ UNCHANGED <<components, exc, i>>
       \/ /\ \E code \in RemoteErrorCodes \cup {"salesforce_invalid_response"} :
                 CatchHTTPException(code)
          /\ clock' = clock
    /\ UNCHANGED <<op, plan, manifest, planned, counters, payload, prov, db, status>>

\* How long one status request takes: two samples of the interval the
\* request timeout of metadata_deploy_status leaves, chosen so that one
\* iteration of the poll loop takes HttpTimeout / 2 or HttpTimeout seconds
StatusCallDurations == {HttpTimeout \div 2 - PollInterval, HttpTimeout - PollInterval}

\* metadata_deploy_and_poll, lines 514-526: one iteration of the poll loop
PollStatus ==
    /\ pc = "poll"
    /\ clock < Timeout
    /\ \/ \E d \in StatusCallDurations :
             /\ clock' = clock + d + PollInterval
             /\ UNCHANGED <<pc, payload, components, exc, i>>
       \/ \E p \in Payloads :
             /\ payload' = p
             /\ pc' = "reconcile"
             /\ i' = 1
             /\ clock' = 0
             /\ UNCHANGED <<components, exc>>
       \/ /\ \E code \in RemoteErrorCodes : CatchHTTPException(code)
          /\ clock' = 0
          /\ payload' = payload
    /\ UNCHANGED <<op, plan, manifest, planned, counters, calls, prov, db, status>>

\* metadata_deploy_and_poll, lines 528-540: the deadline has passed
PollTimeout ==
    /\ pc = "poll"
    /\ ~(clock < Timeout)
    /\ CatchHTTPException("metadata_deploy_timeout")
    /\ clock' = 0
    /\ UNCHANGED <<op, plan, manifest, planned, counters, payload, calls, prov, db, status>>

\* A response of salesforce.tooling_create_custom_field (lines 299-347)
\* or salesforce.tooling_delete (lines 387-426)
ToolingResponses ==
    {[id |-> "tid", success |-> TRUE, errors |-> <<>>],
     [id |-> NoId, success |-> FALSE, errors |-> <<"DUPLICATE_DEVELOPER_NAME">>],
     [id |-> NoId, success |-> FALSE, errors |-> <<>>]}

MutBumpCounterProvisional(type) ==
    [counters EXCEPT
        !.objects = IF type = "custom_object" THEN @ + 1 ELSE @,
        !.fields = IF type = "custom_field" THEN @ + 1 ELSE @,
        !.relationships = @]

BumpCounter(type) ==
    [counters EXCEPT
        !.objects = IF type = "custom_object" THEN @ + 1 ELSE @,
        !.fields = IF type = "custom_field" THEN @ + 1 ELSE @,
        !.relationships = IF type = "relationship" THEN @ + 1 ELSE @]

\* execute_deployment, lines 878-950: one iteration of the reconciliation
\* loop, with the verification of a field-like component provisionally
\* resolved as successful (_resolve_field_id, lines 1040-1072, then the
\* fallback create). An HTTPException raised by the tooling query or by the
\* credential resolution of the fallback create leaves the loop for the
\* except clause of lines 967-975.
ReconcileComponent ==
    /\ pc = "reconcile"
    /\ op = "execute_deployment"
    /\ i <= Len(planned)
    /\ LET maps == MetadataComponentMaps(payload)
           r == ProvisionalResult(planned[i], i, maps, MetadataStatus(payload))
       IN
       /\ prov' = Append(prov, r)
       /\ IF ~r.success
          THEN /\ components' = Append(components, r)
               /\ i' = i + 1
               /\ UNCHANGED <<counters, calls, exc, pc>>
          ELSE IF r.type \notin FieldLike
          THEN /\ components' = Append(components, r)
               /\ counters' = BumpCounter(r.type)
               /\ i' = i + 1
               /\ UNCHANGED <<calls, exc, pc>>
          ELSE
            \/ \* the tooling query raised
               /\ calls' = Append(calls, Call("resolve_field_id", [name |-> r.api_name, src |-> i]))
               /\ \E code \in RemoteErrorCodes : CatchHTTPException(code)
               /\ UNCHANGED counters
            \/ \* the field was found
               /\ calls' = Append(calls, Call("resolve_field_id", [name |-> r.api_name, src |-> i]))
               /\ components' = Append(components, [r EXCEPT !.sfdc_id = "qid"])
               /\ counters' = BumpCounter(r.type)
               /\ i' = i + 1
               /\ UNCHANGED <<exc, pc>>
            \/ \* not found: fallback create, which answered
               /\ calls' = calls \o <<Call("resolve_field_id", [name |-> r.api_name, src |-> i]),
                                       Call("tooling_create_custom_field", [name |-> r.api_name, src |-> i])>>
               /\ \E resp \in ToolingResponses :
                     /\ components' = Append(components,
                            [r EXCEPT !.success = resp.success,
                                      !.sfdc_id = resp.id,
                                      !.error = IF resp.success THEN NoError
                                                ELSE ExtractToolingError(resp)])
                     /\ counters' = IF resp.success THEN BumpCounter(r.type)
                                    ELSE counters
               /\ i' = i + 1
               /\ UNCHANGED <<exc, pc>>
            \/ \* not found: fallback create, whose credential resolution raised
               /\ calls' = calls \o <<Call("resolve_field_id", [name |-> r.api_name, src |-> i]),
                                       Call("tooling_create_custom_field", [name |-> r.api_name, src |-> i])>>
               /\ CatchHTTPException("nango_connection_unavailable")
               /\ UNCHANGED counters
    /\ UNCHANGED <<op, plan, manifest, planned, payload, clock, db, status>>

\* ------------------------------------ _best_effort_auto_map_custom_objects
\* lines 704-724: the successful objects and, per object, the names of its
\* successful fields seen after the object itself
RECURSIVE AutoMapScan(_, _)
AutoMapScan(cs, acc) ==
    IF cs = <<>> THEN acc
    ELSE LET c == Head(cs)
             n == c.api_name
         IN  IF ~c.success \/ n = <<"">>
             THEN AutoMapScan(Tail(cs), acc)
             ELSE IF c.type = "custom_object"
             THEN AutoMapScan(Tail(cs),
                      [acc EXCEPT !.successful_objects = @ \cup {n}])
             ELSE IF c.type \in FieldLike /\ HasDot(n)
                     /\ SplitFirst(n).object \in acc.successful_objects
                     /\ SplitFirst(n).field # <<"">>
             THEN AutoMapScan(Tail(cs),
                      [acc EXCEPT !.object_to_fields =
                                      @ \cup {<<SplitFirst(n).object, SplitFirst(n).field>>}])
             ELSE AutoMapScan(Tail(cs), acc)

\* jsonb || jsonb: the right operand wins on a key conflict
JsonbConcat(left, right) ==
    [k \in DOMAIN left \cup DOMAIN right |->
        IF k \in DOMAIN right THEN right[k] ELSE left[k]]

IdentityMapping(object_api_name, scan) ==
    [f \in {pair[2] : pair \in {x \in scan.object_to_fields : x[1] = object_api_name}}
        |-> f]

\* lines 729-753: INSERT ... ON CONFLICT DO UPDATE of one object
MutUpsertExcludedWins(row, object_api_name, identity_mapping) ==
    IF ~row.present
    THEN [present |-> TRUE, sfdc_object |-> object_api_name, is_active |-> TRUE,
          field_mappings |-> identity_mapping]
    ELSE [row EXCEPT !.sfdc_object = object_api_name,
                     !.field_mappings = JsonbConcat(@, identity_mapping),
                     !.is_active = TRUE]

UpsertFieldMapping(row, object_api_name, identity_mapping) ==
    IF ~row.present
    THEN [present |-> TRUE, sfdc_object |-> object_api_name, is_active |-> TRUE,
          field_mappings |-> identity_mapping]
    ELSE [row EXCEPT !.sfdc_object = object_api_name,
                     !.field_mappings = JsonbConcat(identity_mapping, @),
                     !.is_active = TRUE]

\* execute_deployment, lines 952-966: where control goes after the
\* auto-mapping call; every Exception it raises is logged and dropped
MutAfterAutoMapPropagates(upsert_failed) ==
    IF upsert_failed THEN "raised" ELSE "append"

AfterAutoMap(upsert_failed) == "append"

\* execute_deployment, lines 952-966, with the whole of
\* _best_effort_auto_map_custom_objects: the objects are upserted in the
\* iteration order of a set, and an upsert that raises ends the function,
\* so any subset of them may have been written when it fails.
AutoMap ==
    /\ pc = "reconcile"
    /\ op = "execute_deployment"
    /\ i > Len(planned)
    /\ LET scan == AutoMapScan(components,
                       [successful_objects |-> {}, object_to_fields |-> {}])
       IN \E done \in SUBSET scan.successful_objects :
            LET upsert_failed == done # scan.successful_objects IN
            /\ db' = [o \in DOMAIN db |->
                        IF o \in done
                        THEN UpsertFieldMapping(db[o], o, IdentityMapping(o, scan))
                        ELSE db[o]]
            /\ calls' = Append(calls,
                            Call("auto_map", [done |-> done, failed |-> upsert_failed]))
            /\ pc' = AfterAutoMap(upsert_failed)
            /\ exc' = IF pc' = "raised" THEN "database_error" ELSE exc
    /\ i' = 1
    /\ UNCHANGED <<op, plan, manifest, planned, components, counters, payload, clock, prov, status>>

\* execute_deployment, lines 991-1027: one field of the field-append loop.
\* tooling_create_custom_field returns a response, or raises the
\* HTTPException of get_valid_token (token_manager.py, lines 119-151),
\* which nothing in execute_deployment catches.
AppendField ==
    /\ pc = "append"
    /\ LET fields == StandardFieldList(plan.standard_object_fields) IN
       /\ i <= Len(fields)
       /\ LET f == fields[i]
              full_name == <<f.object, f.field>>
          IN IF f.field = ""
             THEN /\ components' = Append(components,
                        [InvalidPlanComponent("custom_field", full_name)
                            EXCEPT !.origin = "append", !.idx = i])
                  /\ i' = i + 1
                  /\ UNCHANGED <<counters, calls, exc, pc>>
             ELSE /\ calls' = Append(calls, Call("tooling_create_custom_field",
                                                   [name |-> full_name, src |-> i]))
                  /\ \/ \E resp \in ToolingResponses :
                           /\ components' = Append(components,
                                 [type |-> "custom_field", api_name |-> full_name,
                                  success |-> resp.success, sfdc_id |-> resp.id,
                                  error |-> IF resp.success THEN NoError
                                            ELSE ExtractToolingError(resp),
                                  origin |-> "append", idx |-> i])
                           /\ counters' = IF resp.success
                                          THEN BumpCounter("custom_field") ELSE counters
                           /\ i' = i + 1
                           /\ UNCHANGED <<exc, pc>>
                     \/ /\ pc' = "raised"
                        /\ exc' = "nango_connection_unavailable"
                        /\ UNCHANGED <<components, counters, i>>
    /\ UNCHANGED <<op, plan, manifest, planned, payload, clock, prov, db, status>>

\* lines 1029-1037: the result
Return ==
    /\ \/ /\ pc = "append"
          /\ i > Len(StandardFieldList(plan.standard_object_fields))
       \/ pc = "return"
    /\ status' = ResolveDeploymentStatus(Len(components), CountSuccess(components))
    /\ pc' = "done"
    /\ UNCHANGED <<op, plan, manifest, planned, components, counters, payload, clock, i,
                   calls, prov, exc, db>>

\* ------------------------------------------------------------ dict.fromkeys
RECURSIVE Dedupe(_)
Dedupe(names) ==
    IF names = <<>> THEN <<>>
    ELSE LET front == Dedupe(SubSeq(names, 1, Len(names) - 1))
             last == names[Len(names)]
         IN  IF \E k \in 1..Len(front) : front[k] = last
             THEN front ELSE Append(front, last)

RECURSIVE Reverse(_)
Reverse(s) == IF s = <<>> THEN <<>> ELSE Append(Reverse(Tail(s)), Head(s))

RECURSIVE NonEmptyNames(_)
NonEmptyNames(names) ==
    IF names = <<>> THEN <<>>
    ELSE (IF Head(names) # "" THEN <<Head(names)>> ELSE <<>>)
         \o NonEmptyNames(Tail(names))

Typed(type, names) ==
    [k \in 1..Len(names) |-> [type |-> type, api_name |-> <<names[k]>>]]

NamesOf(planned_components) ==
    [k \in 1..Len(planned_components) |-> planned_components[k].api_name]

\* ------------------------------------------- execute_workflow_deployment
FlowNames == {"Flow_A"}
AssignmentRuleObjects == {"Lead"}

WorkflowPlans ==
    {p \in [flows : SeqsUpTo(FlowNames \cup {""}, MaxPlanSize),
            assignment_rules : SeqsUpTo(AssignmentRuleObjects \cup {""}, MaxPlanSize)] :
        Len(p.flows) + Len(p.assignment_rules) <= MaxPlanSize}

\* validate_workflow_plan(plan), restricted to the name rules
ValidateWorkflowPlan(p) ==
    {<<"flows", k, "api_name">> : k \in {x \in 1..Len(p.flows) : p.flows[x] = ""}}
    \cup {<<"assignment_rules", k, "object">> :
             k \in {x \in 1..Len(p.assignment_rules) : p.assignment_rules[x] = ""}}

RECURSIVE UnnamedEntries(_, _)
UnnamedEntries(type, names) ==
    IF names = <<>> THEN <<>>
    ELSE (IF Head(names) = "" THEN <<InvalidPlanComponent(type, <<"">>)>> ELSE <<>>)
         \o UnnamedEntries(type, Tail(names))

\* lines 264-288, with _workflow_metadata_components (lines 198-256)
StartWorkflowDeployment ==
    /\ pc = "start"
    /\ op = "execute_workflow_deployment"
    /\ IF ValidateWorkflowPlan(plan) # {}
       THEN /\ pc' = "raised"
            /\ exc' = "invalid_deploy_plan"
            /\ UNCHANGED <<planned, components, manifest>>
       ELSE LET todo == Typed("flow", NonEmptyNames(plan.flows))
                        \o Typed("assignment_rule", NonEmptyNames(plan.assignment_rules))
            IN
            /\ components' = UnnamedEntries("flow", plan.flows)
                             \o UnnamedEntries("assignment_rule", plan.assignment_rules)
            /\ planned' = todo
            /\ manifest' = NamesOf(todo)
            /\ pc' = IF todo # <<>> THEN "submit" ELSE "return"
            /\ exc' = exc
    /\ UNCHANGED <<op, plan, counters, payload, clock, i, calls, prov, db, status>>

\* The reconciliation loop of a function without verification: every
\* planned component is resolved and appended, in order.
ReconcilePlanned ==
    /\ pc = "reconcile"
    /\ LET maps == MetadataComponentMaps(payload)
           rs == [k \in 1..Len(planned) |->
                     ProvisionalResult(planned[k], k, maps, MetadataStatus(payload))]
       IN /\ components' = components \o rs
          /\ prov' = prov \o rs
    /\ pc' = "return"
    /\ UNCHANGED <<op, plan, manifest, planned, counters, payload, clock, i, calls,
                   exc, db, status>>

\* execute_workflow_deployment, lines 299-332
ReconcileWorkflowDeployment ==
    /\ op = "execute_workflow_deployment"
    /\ ReconcilePlanned

\* --------------------------------------------- execute_workflow_removal
WorkflowRemovals ==
    {p \in [flow_api_names : SeqsUpTo(FlowNames \cup {""}, MaxPlanSize),
            assignment_rule_objects : SeqsUpTo(AssignmentRuleObjects, MaxPlanSize)] :
        Len(p.flow_api_names) + Len(p.assignment_rule_objects) <= MaxPlanSize}

\* lines 359-372
StartWorkflowRemoval ==
    /\ pc = "start"
    /\ op = "execute_workflow_removal"
    /\ LET todo == Typed("flow", NonEmptyNames(plan.flow_api_names))
                   \o Typed("assignment_rule", NonEmptyNames(plan.assignment_rule_objects))
       IN /\ planned' = todo
          /\ manifest' = NamesOf(todo)
          /\ pc' = IF todo # <<>> THEN "submit" ELSE "return"
    /\ UNCHANGED <<op, plan, components, counters, payload, clock, i, calls, prov,
                   exc, db, status>>

\* execute_workflow_removal, lines 383-416
ReconcileWorkflowRemoval ==
    /\ op = "execute_workflow_removal"
    /\ ReconcilePlanned

\* ------------------------------------------ execute_analytics_deployment
ReportFolderNames == {"RF"}
DashboardFolderNames == {"DF"}
ReportNames == {"R1"}
DashboardNames == {"D1"}

\* f"{folder}/{api_name}"
SlashName(folder, api_name) ==
    CASE folder = "RF" /\ api_name = "R1" -> "RF/R1"
      [] folder = "DF" /\ api_name = "D1" -> "DF/D1"
      [] folder = "RF" /\ api_name = "D1" -> "RF/D1"
      [] folder = "DF" /\ api_name = "R1" -> "DF/R1"
      [] OTHER -> "/"

AnalyticsPlans ==
    {p \in [report_folders : SeqsUpTo(ReportFolderNames \cup {""}, MaxPlanSize),
            dashboard_folders : SeqsUpTo(DashboardFolderNames, MaxPlanSize),
            reports : SeqsUpTo([folder : ReportFolderNames \cup {""},
                                api_name : ReportNames,
                                pre_existing : BOOLEAN], MaxPlanSize),
            dashboards : SeqsUpTo([folder : DashboardFolderNames,
                                   api_name : DashboardNames,
                                   pre_existing : {FALSE}], MaxPlanSize)] :
        Len(p.report_folders) + Len(p.dashboard_folders)
            + Len(p.reports) + Len(p.dashboards) <= MaxPlanSize}

FolderErrors(kind, entries, folders_in_plan) ==
    {<<kind, k, "api_name">> : k \in {x \in 1..Len(entries) : entries[x].api_name = ""}}
    \cup {<<kind, k, "folder">> :
             k \in {x \in 1..Len(entries) :
                       \/ entries[x].folder = ""
                       \/ /\ ~entries[x].pre_existing
                          /\ entries[x].folder \notin folders_in_plan}}

\* validate_analytics_plan(plan), restricted to the name and folder rules
ValidateAnalyticsPlan(p) ==
    {<<"report_folders", k, "api_name">> :
        k \in {x \in 1..Len(p.report_folders) : p.report_folders[x] = ""}}
    \cup {<<"dashboard_folders", k, "api_name">> :
             k \in {x \in 1..Len(p.dashboard_folders) : p.dashboard_folders[x] = ""}}
    \cup FolderErrors("reports", p.reports,
             {p.report_folders[k] : k \in 1..Len(p.report_folders)} \ {""})
    \cup FolderErrors("dashboards", p.dashboards,
             {p.dashboard_folders[k] : k \in 1..Len(p.dashboard_folders)} \ {""})

RECURSIVE NamedInFolder(_)
NamedInFolder(entries) ==
    IF entries = <<>> THEN <<>>
    ELSE (IF Head(entries).api_name # "" /\ Head(entries).folder # ""
          THEN <<SlashName(Head(entries).folder, Head(entries).api_name)>>
          ELSE <<>>)
         \o NamedInFolder(Tail(entries))

\* metadata_builder.build_analytics_deploy_zip, lines 682-707: the members
\* of package.xml
PackageXmlForAnalytics(p) ==
    NamesOf(Typed("m", Dedupe(NonEmptyNames(p.report_folders)))
            \o Typed("m", Dedupe(NamedInFolder(p.reports)))
            \o Typed("m", Dedupe(NonEmptyNames(p.dashboard_folders)))
            \o Typed("m", Dedupe(NamedInFolder(p.dashboards))))

\* lines 442-516
StartAnalyticsDeployment ==
    /\ pc = "start"
    /\ op = "execute_analytics_deployment"
    /\ IF ValidateAnalyticsPlan(plan) # {}
       THEN /\ pc' = "raised"
            /\ exc' = "invalid_deploy_plan"
            /\ UNCHANGED <<planned, manifest>>
       ELSE LET todo == Typed("report_folder", NonEmptyNames(plan.report_folders))
                        \o Typed("dashboard_folder", NonEmptyNames(plan.dashboard_folders))
                        \o Typed("report", NamedInFolder(plan.reports))
                        \o Typed("dashboard", NamedInFolder(plan.dashboards))
            IN
            /\ planned' = todo
            /\ manifest' = PackageXmlForAnalytics(plan)
            /\ pc' = IF todo # <<>> THEN "submit" ELSE "return"
            /\ exc' = exc
    /\ UNCHANGED <<op, plan, components, counters, payload, clock, i, calls, prov,
                   db, status>>

\* execute_analytics_deployment, lines 524-559
ReconcileAnalyticsDeployment ==
    /\ op = "execute_analytics_deployment"
    /\ ReconcilePlanned


\* ------------------------------------------------------- execute_rollback
\* The components of a prior Deployment Result
PriorEntries ==
    {[type |-> "custom_object", api_name |-> <<n>>, success |-> b, sfdc_id |-> "pid"] :
        n \in ObjectNames, b \in BOOLEAN}
    \cup {[type |-> "custom_object", api_name |-> <<"">>, success |-> TRUE,
           sfdc_id |-> NoId]}
    \cup {[type |-> "custom_field", api_name |-> <<"A__c", "f__c">>, success |-> b,
           sfdc_id |-> "pid"] : b \in BOOLEAN}
    \cup {[type |-> "custom_field", api_name |-> <<"Account", "s__c">>,
           success |-> TRUE, sfdc_id |-> id] : id \in {NoId, "pid"}}
    \cup {[type |-> "relationship", api_name |-> <<"B__c", "r__c">>, success |-> TRUE,
           sfdc_id |-> "pid"],
          [type |-> "custom_field", api_name |-> <<"f__c">>, success |-> TRUE,
           sfdc_id |-> "pid"],
          [type |-> "flow", api_name |-> <<"Flow_A">>, success |-> TRUE,
           sfdc_id |-> NoId]}

PriorResults == SeqsUpTo(PriorEntries, MaxPrior)

\* The indices, in order, of the components of cs that are in the set ks
RECURSIVE IndicesIn(_, _)
IndicesIn(n, ks) ==
    IF n = 0 THEN <<>>
    ELSE IndicesIn(n - 1, ks) \o (IF n \in ks THEN <<n>> ELSE <<>>)

\* lines 1172-1176
MutSuccessfulComponentsAll(cs) == 1..Len(cs)

SuccessfulComponents(cs) == {k \in 1..Len(cs) : cs[k].success}

\* lines 1177-1181
FieldLikeComponents(cs) ==
    IndicesIn(Len(cs), {k \in SuccessfulComponents(cs) : cs[k].type \in FieldLike})

\* lines 1182-1186
ObjectComponents(cs) ==
    IndicesIn(Len(cs), {k \in SuccessfulComponents(cs) : cs[k].type = "custom_object"})

\* lines 1189-1193
MutObjectNamesForDeleteEmpty(cs) == {}

ObjectNamesForDelete(cs) ==
    {cs[ObjectComponents(cs)[k]].api_name : k \in 1..Len(ObjectComponents(cs))}
    \ {<<"">>}

\* The order in which the field-like components are visited (line 1195)
FieldOrder(cs) == Reverse(FieldLikeComponents(cs))

\* reversed(object_components) without the unnamed ones (lines 1220-1224
\* and 1236-1239), each with the index of its prior component
MutObjectOrderForward(cs) ==
    LET named == IndicesIn(Len(cs),
                     {k \in SuccessfulComponents(cs) :
                         cs[k].type = "custom_object" /\ cs[k].api_name # <<"">>})
    IN  [k \in 1..Len(named) |->
            [type |-> "custom_object", api_name |-> cs[named[k]].api_name,
             sfdc_id |-> cs[named[k]].sfdc_id, src |-> named[k]]]

ObjectOrder(cs) ==
    LET named == Reverse(IndicesIn(Len(cs),
                     {k \in SuccessfulComponents(cs) :
                         cs[k].type = "custom_object" /\ cs[k].api_name # <<"">>}))
    IN  [k \in 1..Len(named) |->
            [type |-> "custom_object", api_name |-> cs[named[k]].api_name,
             sfdc_id |-> cs[named[k]].sfdc_id, src |-> named[k]]]

\* lines 1225-1227 with metadata_builder.build_destructive_deploy_zip
\* (lines 556-562) and _destructive_changes_xml (lines 184-191): the
\* members of destructiveChanges.xml, in document order
DestructiveManifest(cs) == Dedupe(NamesOf(ObjectOrder(cs)))

\* lines 1168-1193
StartRollback ==
    /\ pc = "start"
    /\ op = "execute_rollback"
    /\ planned' = ObjectOrder(plan)
    /\ manifest' = DestructiveManifest(plan)
    /\ pc' = "fields"
    /\ UNCHANGED <<op, plan, components, counters, payload, clock, i, calls, prov,
                   exc, db, status>>

RollbackEntry(c, k, success, sfdc_id, error, skipped) ==
    [type |-> c.type, api_name |-> c.api_name, success |-> success,
     sfdc_id |-> sfdc_id, error |-> error, skipped |-> skipped,
     origin |-> IF c.type = "custom_object" THEN "bulk" ELSE "field", idx |-> k]

\* lines 1195-1217, one iteration, with _rollback_component (lines
\* 1097-1160) and _resolve_field_id (lines 1040-1072)
RollbackField ==
    /\ pc = "fields"
    /\ i <= Len(FieldOrder(plan))
    /\ LET k == FieldOrder(plan)[i]
           c == plan[k]
           object_name == IF HasDot(c.api_name) THEN <<c.api_name[1]>> ELSE <<"">>
           queried == c.api_name # <<"">> /\ HasDot(c.api_name)
           asked == IF queried
                    THEN <<Call("resolve_field_id", [name |-> c.api_name, src |-> k])>>
                    ELSE <<>>
       IN
       IF object_name # <<"">> /\ object_name \in ObjectNamesForDelete(plan)
       THEN /\ components' = Append(components,
                   RollbackEntry(c, k, TRUE, c.sfdc_id, NoError, TRUE))
            /\ calls' = calls
       ELSE
         \/ \* the tooling query raised
            /\ queried
            /\ calls' = calls \o asked
            /\ \E code \in RemoteErrorCodes :
                  components' = Append(components,
                      RollbackEntry(c, k, FALSE, NoId, NormalizeError(code), FALSE))
         \/ \E found \in IF queried THEN {"qid", NoId} ELSE {NoId} :
              LET resolved_id == IF found # NoId THEN found ELSE c.sfdc_id
                  delete == Call("tooling_delete",
                                 [name |-> c.api_name, src |-> k, id |-> resolved_id])
              IN
              IF resolved_id = NoId
              THEN /\ calls' = calls \o asked
                   /\ components' = Append(components,
                          RollbackEntry(c, k, FALSE, NoId, "not_found", FALSE))
              ELSE /\ calls' = calls \o asked \o <<delete>>
                   /\ \/ \E resp \in ToolingResponses :
                            components' = Append(components,
                               RollbackEntry(c, k, resp.success, resolved_id,
                                   IF resp.success THEN NoError
                                   ELSE ExtractToolingError(resp), FALSE))
                      \/ components' = Append(components,
                            RollbackEntry(c, k, FALSE, NoId,
                                NormalizeError("nango_connection_unavailable"), FALSE))
    /\ i' = i + 1
    /\ UNCHANGED <<op, plan, manifest, planned, counters, payload, clock, prov, exc,
                   db, pc, status>>

\* line 1219: the destructive package is compiled and submitted when the
\* prior result holds a successful custom object
RollbackObjects ==
    /\ pc = "fields"
    /\ i > Len(FieldOrder(plan))
    /\ pc' = IF ObjectComponents(plan) # <<>> THEN "submit" ELSE "return"
    /\ UNCHANGED <<op, plan, manifest, planned, components, counters, payload, clock,
                   i, calls, prov, exc, db, status>>

\* execute_rollback, lines 1233-1267
ReconcileRollback ==
    /\ pc = "reconcile"
    /\ op = "execute_rollback"
    /\ LET maps == MetadataComponentMaps(payload)
           rs == [k \in 1..Len(planned) |->
                     LET r == ProvisionalResult(planned[k], k, maps,
                                                MetadataStatus(payload))
                     IN  [r EXCEPT !.sfdc_id = IF planned[k].sfdc_id # NoId
                                                THEN planned[k].sfdc_id ELSE @]]
       IN /\ components' = components \o
                [k \in 1..Len(rs) |->
                    RollbackEntry(rs[k], planned[k].src, rs[k].success, rs[k].sfdc_id,
                                  rs[k].error, FALSE)]
          /\ prov' = prov \o rs
    /\ pc' = "return"
    /\ UNCHANGED <<op, plan, manifest, planned, counters, payload, clock, i, calls,
                   exc, db, status>>

\* --------------------------------------------- execute_analytics_rollback
AnalyticsPriorEntries ==
    {[type |-> "report", api_name |-> <<"RF/R1">>, success |-> b] : b \in BOOLEAN}
    \cup {[type |-> "report_folder", api_name |-> <<"RF">>, success |-> b] :
             b \in BOOLEAN}
    \cup {[type |-> "dashboard", api_name |-> <<"DF/D1">>, success |-> TRUE],
          [type |-> "dashboard_folder", api_name |-> <<"DF">>, success |-> TRUE]}

AnalyticsPriorResults == SeqsUpTo(AnalyticsPriorEntries, MaxPrior)

\* lines 596-627: the names of the successful components of one type,
\* each once, in order
NamesOfType(cs, type) ==
    LET ks == IndicesIn(Len(cs),
                  {k \in SuccessfulComponents(cs) :
                      cs[k].type = type /\ cs[k].api_name # <<"">>})
    IN  Dedupe([k \in 1..Len(ks) |-> cs[ks[k]].api_name])

TypedNames(type, names) ==
    [k \in 1..Len(names) |-> [type |-> type, api_name |-> names[k]]]

\* lines 586-636
StartAnalyticsRollback ==
    /\ pc = "start"
    /\ op = "execute_analytics_rollback"
    /\ LET todo == TypedNames("dashboard", NamesOfType(plan, "dashboard"))
                   \o TypedNames("report", NamesOfType(plan, "report"))
                   \o TypedNames("dashboard_folder", NamesOfType(plan, "dashboard_folder"))
                   \o TypedNames("report_folder", NamesOfType(plan, "report_folder"))
       IN /\ planned' = todo
          /\ manifest' = NamesOf(todo)
          /\ pc' = IF todo # <<>> THEN "submit" ELSE "return"
    /\ UNCHANGED <<op, plan, components, counters, payload, clock, i, calls, prov,
                   exc, db, status>>

\* execute_analytics_rollback, lines 649-676
ReconcileAnalyticsRollback ==
    /\ op = "execute_analytics_rollback"
    /\ ReconcilePlanned


Init ==
    /\ \/ op = "execute_deployment" /\ plan \in DeployPlans
       \/ op = "execute_workflow_deployment" /\ plan \in WorkflowPlans
       \/ op = "execute_workflow_removal" /\ plan \in WorkflowRemovals
       \/ op = "execute_analytics_deployment" /\ plan \in AnalyticsPlans
       \/ op = "execute_analytics_rollback" /\ plan \in AnalyticsPriorResults
       \/ op = "execute_rollback" /\ plan \in PriorResults
    /\ pc = "start"
    /\ planned = <<>>
    /\ components = <<>>
    /\ counters = ZeroCounters
    /\ manifest = <<>>
    /\ payload = NoPayload
    /\ clock = 0
    /\ i = 1
    /\ calls = <<>>
    /\ prov = <<>>
    /\ exc = "none"
    /\ db = CuratedDb
    /\ status = "none"

Next ==
    \/ Validate
    \/ SubmitPackage
    \/ PollStatus
    \/ PollTimeout
    \/ ReconcileComponent
    \/ AutoMap
    \/ AppendField
    \/ Return
    \/ StartWorkflowDeployment
    \/ ReconcileWorkflowDeployment
    \/ StartWorkflowRemoval
    \/ ReconcileWorkflowRemoval
    \/ StartAnalyticsDeployment
    \/ ReconcileAnalyticsDeployment
    \/ StartAnalyticsRollback
    \/ ReconcileAnalyticsRollback
    \/ StartRollback
    \/ RollbackField
    \/ RollbackObjects
    \/ ReconcileRollback

Spec == Init /\ [][Next]_vars


\* =========================================================== push_service
\* app/services/push_service.py. The model reuses the state variables:
\* plan is the records argument (each record stands for itself, its
\* content plays no part in chunking or in the results), planned the list
\* of batches, components all_results, counters the counts of the returned
\* result, calls the composite_upsert calls and prov, per batch, what the
\* call did.
MinOf(a, b) == IF a <= b THEN a ELSE b

RecordLists == {[k \in 1..n |-> k] : n \in 0..MaxRecords}

\* _chunk_records(records, chunk_size)
ChunkRecords(records, chunk_size) ==
    [c \in 1..((Len(records) + chunk_size - 1) \div chunk_size) |->
        SubSeq(records, (c - 1) * chunk_size + 1,
               MinOf(c * chunk_size, Len(records)))]

\* _build_batch_failure_result(error, batch_size) for a dict detail
MutBuildBatchFailureResultOnce(error_code, batch_size) ==
    <<[id |-> NoId, success |-> FALSE, created |-> FALSE, errors |-> <<error_code>>]>>

BuildBatchFailureResult(error_code, batch_size) ==
    [k \in 1..batch_size |->
        [id |-> NoId, success |-> FALSE, created |-> FALSE, errors |-> <<error_code>>]]

UpsertSuccess == [id |-> "rid", success |-> TRUE, created |-> TRUE, errors |-> <<>>]

UpsertFailure ==
    [id |-> NoId, success |-> FALSE, created |-> FALSE,
     errors |-> <<"REQUIRED_FIELD_MISSING">>]

\* What salesforce.composite_upsert (salesforce.py, lines 188-235) returns
\* for a batch when the platform answers 200 with a list: one result per
\* record; every record accepted, every record rejected, or the first
\* rejected and the others accepted
UpsertResponses(batch) ==
    {[k \in 1..Len(batch) |-> UpsertSuccess],
     [k \in 1..Len(batch) |-> UpsertFailure],
     [k \in 1..Len(batch) |-> IF k = 1 THEN UpsertFailure ELSE UpsertSuccess]}

\* all_results.extend(batch_results)
MutExtendResultsReplaces(all_results, batch_results) == batch_results

ExtendResults(all_results, batch_results) == all_results \o batch_results

\* push_records, lines 77-85
MutPushStatusFailedFirst(records_succeeded, records_failed, total) ==
    IF records_failed = total THEN "failed"
    ELSE IF records_succeeded = total THEN "succeeded"
    ELSE "partial"

PushStatus(records_succeeded, records_failed, total) ==
    IF records_succeeded = total THEN "succeeded"
    ELSE IF records_failed = total THEN "failed"
    ELSE "partial"

NoCounts == [records_total |-> 0, records_succeeded |-> 0, records_failed |-> 0]

InitPush ==
    /\ op = "push_records"
    /\ plan \in RecordLists
    /\ pc = "start"
    /\ planned = <<>>
    /\ components = <<>>
    /\ counters = NoCounts
    /\ manifest = <<>>
    /\ payload = NoPayload
    /\ clock = 0
    /\ i = 1
    /\ calls = <<>>
    /\ prov = <<>>
    /\ exc = "none"
    /\ db = CuratedDb
    /\ status = "none"

\* push_records, lines 57-64: transform, then cut into batches
StartPush ==
    /\ pc = "start"
    /\ planned' = ChunkRecords(plan, SFDC_COMPOSITE_BATCH_SIZE)
    /\ pc' = "batches"
    /\ UNCHANGED <<op, plan, components, counters, manifest, payload, clock, i,
                   calls, prov, exc, db, status>>

\* push_records, lines 64-75: one batch
PushBatch ==
    /\ pc = "batches"
    /\ i <= Len(planned)
    /\ calls' = Append(calls, Call("composite_upsert", planned[i]))
    /\ \/ \E response \in UpsertResponses(planned[i]) :
             /\ components' = ExtendResults(components, response)
             /\ prov' = Append(prov, [raised |-> FALSE, code |-> NoError,
                                      response |-> response])
       \/ \E code \in RemoteErrorCodes :
             /\ components' = ExtendResults(components,
                                  BuildBatchFailureResult(code, Len(planned[i])))
             /\ prov' = Append(prov, [raised |-> TRUE, code |-> code,
                                      response |-> <<>>])
    /\ i' = i + 1
    /\ UNCHANGED <<op, plan, planned, counters, manifest, payload, clock, exc, db,
                   pc, status>>

\* push_records, lines 77-96
ReturnPush ==
    /\ pc = "batches"
    /\ i > Len(planned)
    /\ LET records_succeeded == CountSuccess(components)
           records_failed == Len(components) - records_succeeded
       IN /\ status' = PushStatus(records_succeeded, records_failed, Len(components))
          /\ counters' = [records_total |-> Len(plan),
                          records_succeeded |-> records_succeeded,
                          records_failed |-> records_failed]
    /\ pc' = "done"
    /\ UNCHANGED <<op, plan, planned, components, manifest, payload, clock, i,
                   calls, prov, exc, db>>

NextPush ==
    \/ StartPush
    \/ PushBatch
    \/ ReturnPush

SpecPush == InitPush /\ [][NextPush]_vars

\* ======================================================= conflict_checker
\* app/services/conflict_checker.py. check_conflicts is a pure function of
\* (deployment_plan, topology_snapshot), held in plan; components holds
\* its findings, counters its three counts, status its overall_severity.
PLAN_TYPE_TO_SFDC_TYPE ==
    [t \in {"Text", "Number", "Currency", "Date", "DateTime", "Checkbox",
            "Picklist", "MultiPicklist", "Phone", "Email", "Url", "Percent",
            "TextArea", "LongTextArea", "Lookup", "MasterDetail"} |->
        CASE t = "Text" -> "string"
          [] t = "Number" -> "double"
          [] t = "Currency" -> "currency"
          [] t = "Date" -> "date"
          [] t = "DateTime" -> "datetime"
          [] t = "Checkbox" -> "boolean"
          [] t = "Picklist" -> "picklist"
          [] t = "MultiPicklist" -> "multipicklist"
          [] t = "Phone" -> "phone"
          [] t = "Email" -> "email"
          [] t = "Url" -> "url"
          [] t = "Percent" -> "percent"
          [] t = "TextArea" -> "textarea"
          [] t = "LongTextArea" -> "textarea"
          [] t = "Lookup" -> "reference"
          [] t = "MasterDetail" -> "reference"]

\* str.lower() on the type names that occur
Lower(text) ==
    CASE text = "String" -> "string"
      [] text = "Text" -> "text"
      [] text = "Number" -> "number"
      [] text = "LongTextArea" -> "longtextarea"
      [] OTHER -> text

\* _normalize_type(plan_type) of a non-empty plan type
MutNormalizeTypeUnmapped(plan_type) == Lower(plan_type)

NormalizeType(plan_type) ==
    Lower(IF plan_type \in DOMAIN PLAN_TYPE_TO_SFDC_TYPE
          THEN PLAN_TYPE_TO_SFDC_TYPE[plan_type] ELSE plan_type)

\* Inputs. A planned field has a name (possibly empty) and a type; a
\* snapshot field a name, a type as the platform describes it, and what
\* makes it required; a snapshot object is absent or a payload.
PlanTypes == {"Text", "Number", "LongTextArea"}

PlanFieldEntries ==
    [api_name : {"f__c"}, type : PlanTypes] \cup {[api_name |-> "", type |-> "Text"]}

PlanFieldLists == SeqsUpTo(PlanFieldEntries, MaxPlanFields)

ConflictPlans ==
    [custom_objects :
        {<<>>} \cup {<<[api_name |-> "A__c", fields |-> fs]>> : fs \in PlanFieldLists},
     standard_object_fields :
        {<<>>} \cup {<<[object |-> "Account", fields |-> fs]>> : fs \in PlanFieldLists}]

Absent == [exists |-> FALSE]

SnapshotField(name, type, nillable) ==
    [name |-> name, type |-> type, nillable |-> nillable, defaultValue |-> "null"]

SnapshotObjects(types, others, rules) ==
    {Absent} \cup
    {[exists |-> TRUE, fields |-> fs \o other, validationRules |-> rule] :
        fs \in {<<>>} \cup {<<SnapshotField("f__c", t, TRUE)>> : t \in types},
        other \in others,
        rule \in rules}

TopologySnapshots ==
    [A__c : SnapshotObjects({"string", "String", "double", "textarea"},
                            {<<>>}, {<<>>}),
     Account : SnapshotObjects({"string", "double"},
                               {<<>>, <<SnapshotField("Name", "string", FALSE)>>},
                               {<<>>, <<[active |-> TRUE]>>})]

\* objects.get(object_name)
ObjectPayload(objects, object_name) ==
    IF object_name \in DOMAIN objects THEN objects[object_name] ELSE Absent

\* _build_field_map(object_payload): a later field of the same name
\* replaces an earlier one
FieldMapNames(object_payload) ==
    {object_payload.fields[k].name : k \in 1..Len(object_payload.fields)} \ {""}

FieldMapGet(object_payload, field_name) ==
    LET ks == {k \in 1..Len(object_payload.fields) :
                  object_payload.fields[k].name = field_name}
    IN  object_payload.fields[CHOOSE k \in ks : \A j \in ks : j <= k]

\* _append_finding: the finding appended; the message is kept as the
\* names it is made of
Finding(severity, category, object_name, field_name) ==
    [severity |-> severity, category |-> category,
     object |-> object_name, field |-> field_name]

\* check_conflicts, lines 132-174 and 209-253: the findings of the planned
\* fields of an object that exists
RECURSIVE FieldFindings(_, _, _)
FieldFindings(object_name, object_payload, plan_fields) ==
    IF plan_fields = <<>> THEN <<>>
    ELSE LET plan_field == Head(plan_fields)
             field_name == plan_field.api_name
             rest == FieldFindings(object_name, object_payload, Tail(plan_fields))
         IN  IF field_name = "" THEN rest
             ELSE IF field_name \notin FieldMapNames(object_payload)
             THEN <<Finding("green", "field_name", object_name, field_name)>> \o rest
             ELSE LET existing_type ==
                          Lower(FieldMapGet(object_payload, field_name).type)
                      plan_type == NormalizeType(plan_field.type)
                  IN  IF existing_type = plan_type
                      THEN <<Finding("yellow", "field_name", object_name, field_name)>>
                           \o rest
                      ELSE <<Finding("red", "field_name", object_name, field_name)>>
                           \o rest

\* check_conflicts, lines 98-174: the findings of one planned custom object
CustomObjectFindings(objects, custom_object) ==
    LET object_name == custom_object.api_name
        object_payload == ObjectPayload(objects, object_name)
    IN  IF object_name = "" THEN <<>>
        ELSE IF object_payload.exists
        THEN <<Finding("red", "object_name", object_name, "")>>
             \o FieldFindings(object_name, object_payload, custom_object.fields)
        ELSE <<Finding("green", "object_name", object_name, "")>>

\* _is_required_field(field)
IsRequiredField(field) == field.nillable = FALSE /\ field.defaultValue = "null"

\* _has_active_validation_rules(object_payload) for a list of rule dicts
HasActiveValidationRules(object_payload) ==
    \E k \in 1..Len(object_payload.validationRules) :
        object_payload.validationRules[k].active

\* check_conflicts, lines 255-274
RECURSIVE RequiredFieldFindings(_, _, _)
RequiredFieldFindings(object_name, existing_fields, planned_field_names) ==
    IF existing_fields = <<>> THEN <<>>
    ELSE LET field == Head(existing_fields)
             rest == RequiredFieldFindings(object_name, Tail(existing_fields),
                                           planned_field_names)
         IN  IF field.name # "" /\ field.name \notin planned_field_names
                /\ IsRequiredField(field)
             THEN <<Finding("yellow", "required_field", object_name, field.name)>>
                  \o rest
             ELSE rest

\* check_conflicts, lines 178-282: the findings of one standard object
StandardObjectFindings(objects, standard_object) ==
    LET object_name == standard_object.object
        object_payload == ObjectPayload(objects, object_name)
        plan_fields == standard_object.fields
        planned_field_names ==
            {plan_fields[k].api_name : k \in 1..Len(plan_fields)} \ {""}
    IN  IF object_name = "" THEN <<>>
        ELSE IF ~object_payload.exists
        THEN <<Finding("red", "standard_object", object_name, "")>>
        ELSE <<Finding("green", "standard_object", object_name, "")>>
             \o FieldFindings(object_name, object_payload, plan_fields)
             \o RequiredFieldFindings(object_name, object_payload.fields,
                                      planned_field_names)
             \o (IF HasActiveValidationRules(object_payload)
                 THEN <<Finding("yellow", "validation_rule", object_name, "")>>
                 ELSE <<>>)

RECURSIVE AllCustomObjectFindings(_, _)
AllCustomObjectFindings(objects, custom_objects) ==
    IF custom_objects = <<>> THEN <<>>
    ELSE CustomObjectFindings(objects, Head(custom_objects))
         \o AllCustomObjectFindings(objects, Tail(custom_objects))

RECURSIVE AllStandardObjectFindings(_, _)
AllStandardObjectFindings(objects, standard_object_fields) ==
    IF standard_object_fields = <<>> THEN <<>>
    ELSE StandardObjectFindings(objects, Head(standard_object_fields))
         \o AllStandardObjectFindings(objects, Tail(standard_object_fields))

\* lines 284-286
SeverityCount(findings, severity) ==
    Cardinality({k \in 1..Len(findings) : findings[k].severity = severity})

\* lines 288-293
MutOverallSeverityYellowFirst(red_count, yellow_count) ==
    IF yellow_count > 0 THEN "yellow"
    ELSE IF red_count > 0 THEN "red"
    ELSE "green"

OverallSeverity(red_count, yellow_count) ==
    IF red_count > 0 THEN "red"
    ELSE IF yellow_count > 0 THEN "yellow"
    ELSE "green"

NoSeverityCounts == [green_count |-> 0, yellow_count |-> 0, red_count |-> 0]

InitConflicts ==
    /\ op = "check_conflicts"
    /\ plan \in [deployment_plan : ConflictPlans, topology_snapshot : TopologySnapshots]
    /\ pc = "start"
    /\ planned = <<>>
    /\ components = <<>>
    /\ counters = NoSeverityCounts
    /\ manifest = <<>>
    /\ payload = NoPayload
    /\ clock = 0
    /\ i = 1
    /\ calls = <<>>
    /\ prov = <<>>
    /\ exc = "none"
    /\ db = CuratedDb
    /\ status = "none"

\* check_conflicts(deployment_plan, topology_snapshot)
CheckConflicts ==
    /\ pc = "start"
    /\ LET objects == plan.topology_snapshot
           findings ==
               AllCustomObjectFindings(objects, plan.deployment_plan.custom_objects)
               \o AllStandardObjectFindings(objects,
                      plan.deployment_plan.standard_object_fields)
           red_count == SeverityCount(findings, "red")
           yellow_count == SeverityCount(findings, "yellow")
       IN /\ components' = findings
          /\ counters' = [green_count |-> SeverityCount(findings, "green"),
                          yellow_count |-> yellow_count,
                          red_count |-> red_count]
          /\ status' = OverallSeverity(red_count, yellow_count)
    /\ pc' = "done"
    /\ UNCHANGED <<op, plan, planned, manifest, payload, clock, i, calls, prov,
                   exc, db>>

NextConflicts == CheckConflicts

SpecConflicts == InitConflicts /\ [][NextConflicts]_vars

\* ================================================= deploy_validators.py
\* The validators in full for the rules about numeric fields and report
\* folders. Errors are the list the validator returns; a path is the
\* tuple of the keys and indices of its dotted form.

ValidationError(field, message) == [field |-> field, message |-> message]

\* str.strip() on the strings of the universes
Strip(text) ==
    CASE text = " RF " -> "RF"
      [] text = " " -> ""
      [] OTHER -> text

\* deploy_validators._is_non_empty_string, lines 88-89
IsNonEmptyString(value) == Strip(value) # ""

\* deploy_validators._validate_required_string, lines 92-104
ValidateRequiredString(entry, key, path) ==
    IF IsNonEmptyString(entry[key])
    THEN [errors |-> <<>>, value |-> Strip(entry[key])]
    ELSE [errors |-> <<ValidationError(path \o <<key>>, "must be a non-empty string")>>,
          value |-> ""]

\* JSON values of the numeric keys of a field payload: the key missing,
\* null, an integer, a boolean, a string
JsonMissing == [kind |-> "missing", v |-> 0]
JsonNull == [kind |-> "null", v |-> 0]
JsonInt(n) == [kind |-> "int", v |-> n]
JsonBool == [kind |-> "bool", v |-> 1]
JsonString == [kind |-> "str", v |-> 0]

JsonNumbers ==
    {JsonMissing, JsonNull, JsonBool, JsonString}
    \cup {JsonInt(n) : n \in (0 - 1)..MaxNumber}

\* deploy_validators._validate_positive_int_if_present, lines 107-120
ValidatePositiveIntIfPresent(entry, key, path) ==
    LET value == entry[key] IN
    IF value.kind \in {"missing", "null"}
    THEN [errors |-> <<>>, value |-> JsonNull]
    ELSE IF value.kind # "int" \/ value.v <= 0
    THEN [errors |-> <<ValidationError(path \o <<key>>, "must be a positive integer")>>,
          value |-> JsonNull]
    ELSE [errors |-> <<>>, value |-> value]

CUSTOM_FIELD_TYPES ==
    {"Text", "Number", "Currency", "Percent", "Picklist", "Lookup", "MasterDetail",
     "Checkbox", "TextArea", "LongTextArea", "Date", "DateTime", "Phone", "Email",
     "Url"}

\* The precision >= scale rule of _validate_custom_field_entry, lines 195-200
PrecisionScaleErrors(precision, scale, field_path) ==
    IF precision # JsonNull /\ scale # JsonNull /\ precision.v < scale.v
    THEN <<ValidationError(field_path \o <<"precision">>,
                           "precision must be greater than or equal to scale")>>
    ELSE <<>>

\* deploy_validators._validate_custom_field_entry, lines 142-232, for the
\* types of the universe (relationship_only = False)
ValidateCustomFieldEntry(field_payload, field_path) ==
    LET api_name == ValidateRequiredString(field_payload, "api_name", field_path)
        label == ValidateRequiredString(field_payload, "label", field_path)
        field_type == ValidateRequiredString(field_payload, "type", field_path)
        length == ValidatePositiveIntIfPresent(field_payload, "length", field_path)
        precision == ValidatePositiveIntIfPresent(field_payload, "precision", field_path)
        scale == ValidatePositiveIntIfPresent(field_payload, "scale", field_path)
    IN  api_name.errors \o label.errors \o field_type.errors
        \o (IF field_type.value = "" THEN <<>>
            ELSE IF field_type.value \notin CUSTOM_FIELD_TYPES
            THEN <<ValidationError(field_path \o <<"type">>, "Invalid field type")>>
            ELSE IF field_type.value = "Text" THEN length.errors
            ELSE IF field_type.value \in {"Number", "Currency", "Percent"}
            THEN precision.errors \o scale.errors
                 \o PrecisionScaleErrors(precision.value, scale.value, field_path)
            ELSE <<>>)

RECURSIVE FieldEntryErrors(_, _, _)
FieldEntryErrors(fields, object_path, field_index) ==
    IF field_index > Len(fields) THEN <<>>
    ELSE ValidateCustomFieldEntry(fields[field_index],
                                  object_path \o <<"fields", field_index - 1>>)
         \o FieldEntryErrors(fields, object_path, field_index + 1)

\* deploy_validators.validate_custom_object_plan, lines 233-306, the list
\* of errors of a plan whose objects carry fields and no relationships
RECURSIVE CustomObjectPlanErrors(_, _)
CustomObjectPlanErrors(custom_objects, object_index) ==
    IF object_index > Len(custom_objects) THEN <<>>
    ELSE LET custom_object == custom_objects[object_index]
             object_path == <<"custom_objects", object_index - 1>>
             object_api_name == ValidateRequiredString(custom_object, "api_name", object_path)
             label == ValidateRequiredString(custom_object, "label", object_path)
         IN  object_api_name.errors
             \o (IF object_api_name.value # ""
                    /\ ~EndsWithCustomSuffix(object_api_name.value)
                 THEN <<ValidationError(object_path \o <<"api_name">>,
                                        "Custom object api_name must end with '__c'")>>
                 ELSE <<>>)
             \o label.errors
             \o FieldEntryErrors(custom_object.fields, object_path, 1)
             \o CustomObjectPlanErrors(custom_objects, object_index + 1)

NumericFieldPayloads ==
    [api_name : {"f__c"}, label : {"F"},
     type : {"Number", "Currency", "Percent", "Text", "Geo", " "},
     length : {JsonMissing, JsonInt(0), JsonInt(255)},
     precision : JsonNumbers, scale : JsonNumbers]

NumericFieldPlans ==
    {[custom_objects |-> <<[api_name |-> "A__c", label |-> "A", fields |-> <<f>>]>>] :
        f \in NumericFieldPayloads}

NoErrorCounts == [errors_before |-> 0]

InitFieldValidation ==
    /\ op = "validate_custom_object_plan"
    /\ plan \in NumericFieldPlans
    /\ pc = "start"
    /\ planned = <<>>
    /\ components = <<>>
    /\ counters = NoErrorCounts
    /\ manifest = <<>>
    /\ payload = NoPayload
    /\ clock = 0
    /\ i = 1
    /\ calls = <<>>
    /\ prov = <<>>
    /\ exc = "none"
    /\ db = CuratedDb
    /\ status = "none"

\* validate_custom_object_plan(plan)
ValidateCustomObjectPlanCall ==
    /\ pc = "start"
    /\ op = "validate_custom_object_plan"
    /\ components' = CustomObjectPlanErrors(plan.custom_objects, 1)
    /\ pc' = "done"
    /\ UNCHANGED <<op, plan, planned, counters, manifest, payload, clock, i, calls,
                   prov, exc, db, status>>

NextFieldValidation == ValidateCustomObjectPlanCall

SpecFieldValidation == InitFieldValidation /\ [][NextFieldValidation]_vars

\* ------------------------------------------------ validate_analytics_plan
\* The pre_existing key of an entry: missing, true, false, or a value that
\* is not a boolean
PreExistingValues == {"missing", "true", "false", "string"}

\* deploy_validators._validate_pre_existing_flag, lines 123-139
ValidatePreExistingFlag(entry, path) ==
    IF entry.pre_existing = "missing" THEN [errors |-> <<>>, value |-> FALSE]
    ELSE IF entry.pre_existing \in {"true", "false"}
    THEN [errors |-> <<>>, value |-> entry.pre_existing = "true"]
    ELSE [errors |-> <<ValidationError(path \o <<"pre_existing">>,
                                       "pre_existing must be a boolean when provided")>>,
          value |-> FALSE]

FOLDER_ACCESS_TYPES == {"Public", "PublicInternal", "Shared", "Hidden"}

\* lines 356-375: one report_folders entry
ReportFolderEntryErrors(folder, path) ==
    ValidateRequiredString(folder, "api_name", path).errors
    \o ValidateRequiredString(folder, "name", path).errors
    \o (IF folder.accessType # "missing" /\ folder.accessType \notin FOLDER_ACCESS_TYPES
        THEN <<ValidationError(path \o <<"accessType">>, "Invalid accessType")>>
        ELSE <<>>)

RECURSIVE ReportFolderErrors(_, _)
ReportFolderErrors(report_folders, index) ==
    IF index > Len(report_folders) THEN <<>>
    ELSE ReportFolderEntryErrors(report_folders[index], <<"report_folders", index - 1>>)
         \o ReportFolderErrors(report_folders, index + 1)

\* lines 350 and 363-365: report_folders_in_plan
ReportFoldersInPlan(report_folders) ==
    {Strip(report_folders[k].api_name) : k \in 1..Len(report_folders)} \ {""}

\* lines 584-588: the condition of the folder error of a report
MutReportFolderMissingIgnoresFlag(report_folder, report_pre_existing, report_folders_in_plan) ==
    /\ report_folder # ""
    /\ report_folder \notin report_folders_in_plan

ReportFolderMissing(report_folder, report_pre_existing, report_folders_in_plan) ==
    /\ report_folder # ""
    /\ ~report_pre_existing
    /\ report_folder \notin report_folders_in_plan

\* lines 407-596: one reports entry that gives none of the optional keys
\* but pre_existing
ReportEntryErrors(report, report_path, report_folders_in_plan) ==
    LET report_api_name == ValidateRequiredString(report, "api_name", report_path)
        report_folder == ValidateRequiredString(report, "folder", report_path)
        name == ValidateRequiredString(report, "name", report_path)
        report_type == ValidateRequiredString(report, "reportType", report_path)
        report_pre_existing == ValidatePreExistingFlag(report, report_path)
    IN  report_api_name.errors \o report_folder.errors \o name.errors
        \o report_type.errors \o report_pre_existing.errors
        \o (IF ReportFolderMissing(report_folder.value, report_pre_existing.value,
                                   report_folders_in_plan)
            THEN <<ValidationError(report_path \o <<"folder">>,
                                   "Report folder not found in plan report_folders and not marked as pre_existing")>>
            ELSE <<>>)

RECURSIVE ReportErrors(_, _, _)
ReportErrors(reports, report_index, report_folders_in_plan) ==
    IF report_index > Len(reports) THEN <<>>
    ELSE ReportEntryErrors(reports[report_index], <<"reports", report_index - 1>>,
                           report_folders_in_plan)
         \o ReportErrors(reports, report_index + 1, report_folders_in_plan)

\* deploy_validators.validate_analytics_plan, lines 345-727, for a plan
\* of report folders and reports
AnalyticsPlanErrors(p) ==
    ReportFolderErrors(p.report_folders, 1)
    \o ReportErrors(p.reports, 1, ReportFoldersInPlan(p.report_folders))

ReportFolderPayloads ==
    [api_name : {"RF", " "}, name : {"F"}, accessType : {"missing", "Bogus"}]

ReportPayloads ==
    [api_name : {"R1"}, folder : {" ", " RF ", "RG"}, name : {"R"}, reportType : {"T"},
     pre_existing : PreExistingValues]

ReportFolderPlans ==
    [report_folders : SeqsUpTo(ReportFolderPayloads, MaxReportFolders),
     reports : SeqsUpTo(ReportPayloads, MaxReports)]

InitAnalyticsValidation ==
    /\ op = "validate_analytics_plan"
    /\ plan \in ReportFolderPlans
    /\ pc = "start"
    /\ planned = <<>>
    /\ components = <<>>
    /\ counters = NoErrorCounts
    /\ manifest = <<>>
    /\ payload = NoPayload
    /\ clock = 0
    /\ i = 1
    /\ calls = <<>>
    /\ prov = <<>>
    /\ exc = "none"
    /\ db = CuratedDb
    /\ status = "none"

\* validate_analytics_plan(plan)
ValidateAnalyticsPlanCall ==
    /\ pc = "start"
    /\ op = "validate_analytics_plan"
    /\ components' = AnalyticsPlanErrors(plan)
    /\ pc' = "validated"
    /\ UNCHANGED <<op, plan, planned, counters, manifest, payload, clock, i, calls,
                   prov, exc, db, status>>

IsFolderError(error, report_index) ==
    /\ error.field = <<"reports", report_index - 1, "folder">>
    /\ error.message # "must be a non-empty string"

HasFolderError(errors, report_index) ==
    \E e \in 1..Len(errors) : IsFolderError(errors[e], report_index)

\* The caller adds a valid report folder named as the folder of a report
\* that has the folder error, and validate_analytics_plan runs on the new
\* plan; planned keeps the plan of the first run.
AddReportFolder ==
    /\ pc = "validated"
    /\ op = "validate_analytics_plan"
    /\ \E k \in 1..Len(plan.reports) :
          /\ HasFolderError(components, k)
          /\ LET folder == [api_name |-> Strip(plan.reports[k].folder), name |-> "F",
                            accessType |-> "Public"]
                 edited == [plan EXCEPT !.report_folders = Append(@, folder)]
             IN  /\ plan' = edited
                 /\ components' = AnalyticsPlanErrors(edited)
          /\ i' = k
    /\ planned' = <<plan>>
    /\ counters' = [errors_before |-> Len(components)]
    /\ status' = "folder_added"
    /\ pc' = "done"
    /\ UNCHANGED <<op, manifest, payload, clock, calls, prov, exc, db>>

\* The caller sets pre_existing: true on a report that has the folder
\* error, and validate_analytics_plan runs on the new plan.
MarkPreExisting ==
    /\ pc = "validated"
    /\ op = "validate_analytics_plan"
    /\ \E k \in 1..Len(plan.reports) :
          /\ HasFolderError(components, k)
          /\ LET edited == [plan EXCEPT !.reports[k].pre_existing = "true"]
             IN  /\ plan' = edited
                 /\ components' = AnalyticsPlanErrors(edited)
          /\ i' = k
    /\ planned' = <<plan>>
    /\ counters' = [errors_before |-> Len(components)]
    /\ status' = "pre_existing_set"
    /\ pc' = "done"
    /\ UNCHANGED <<op, manifest, payload, clock, calls, prov, exc, db>>

NextAnalyticsValidation ==
    \/ ValidateAnalyticsPlanCall
    \/ AddReportFolder
    \/ MarkPreExisting

SpecAnalyticsValidation == InitAnalyticsValidation /\ [][NextAnalyticsValidation]_vars

\* ===================================== salesforce.metadata_deploy_and_poll
\* The poll loop on its own, with the monotonic clock in seconds: clock is
\* time.monotonic() since the call, counters holds the deadline and the
\* time the last status request ended, i counts the status requests made,
\* payload is last_payload (the payload returned, once pc is "returned").

\* How long the submit request or one status request takes: immediately,
\* or the whole request timeout of the HTTP client
RequestDurations == {0, HttpTimeout}

\* The payloads a status request can answer with; an empty status is a
\* status key that is missing
StatusPayloads ==
    [shape : {"nested", "flat"},
     status : TerminalStates \cup {"InProgress", "Pending", ""},
     successes : {{}}, failures : {{}}]

\* lines 517-522: the status read from a payload
PolledStatus(p) ==
    IF p.shape = "nested"
    THEN (IF p.status = "" THEN "None" ELSE p.status)
    ELSE p.status

\* line 523: status in terminal_states
MutStatusIsTerminalWhenPresent(p) == PolledStatus(p) # ""

StatusIsTerminal(p) == PolledStatus(p) \in TerminalStates

NoDeadline == [deadline |-> 0, last_end |-> 0]

InitPoll ==
    /\ op = "metadata_deploy_and_poll"
    /\ plan \in {<<<<"A__c">>>>, <<<<"A__c">>, <<"B__c">>>>}
    /\ pc = "start"
    /\ planned = <<>>
    /\ components = <<>>
    /\ counters = NoDeadline
    /\ manifest = <<>>
    /\ payload = NoPayload
    /\ clock = 0
    /\ i = 0
    /\ calls = <<>>
    /\ prov = <<>>
    /\ exc = "none"
    /\ db = CuratedDb
    /\ status = "none"

\* lines 509-512: the package is submitted, then the deadline is set
DeployRequest ==
    /\ pc = "start"
    /\ op = "metadata_deploy_and_poll"
    /\ calls' = Append(calls, Call("metadata_deploy", plan))
    /\ \E d \in RequestDurations :
          /\ clock' = clock + d
          /\ \/ /\ pc' = "loop"
                /\ counters' = [deadline |-> clock + d + Timeout, last_end |-> 0]
                /\ exc' = exc
             \/ /\ pc' = "raised"
                /\ exc' \in RemoteErrorCodes \cup {"salesforce_invalid_response"}
                /\ counters' = counters
    /\ UNCHANGED <<op, plan, planned, components, manifest, payload, i, prov, db, status>>

\* line 514: while time.monotonic() < deadline, and lines 528-540
LoopTest ==
    /\ pc = "loop"
    /\ IF clock < counters.deadline
       THEN pc' = "status" /\ exc' = exc
       ELSE pc' = "raised" /\ exc' = "metadata_deploy_timeout"
    /\ UNCHANGED <<op, plan, planned, components, counters, manifest, payload, clock,
                   i, calls, prov, db, status>>

\* lines 515-524: one status request, and the return on a terminal status
StatusRequest ==
    /\ pc = "status"
    /\ i' = i + 1
    /\ \E d \in RequestDurations :
          /\ clock' = clock + d
          /\ counters' = [counters EXCEPT !.last_end = clock + d]
          /\ \/ \E p \in StatusPayloads :
                   /\ payload' = p
                   /\ pc' = IF StatusIsTerminal(p) THEN "returned" ELSE "sleep"
                   /\ exc' = exc
             \/ /\ pc' = "raised"
                /\ exc' \in RemoteErrorCodes \cup {"salesforce_invalid_response"}
                /\ payload' = payload
    /\ UNCHANGED <<op, plan, planned, components, manifest, calls, prov, db, status>>

\* line 526: asyncio.sleep(poll_interval)
Sleep ==
    /\ pc = "sleep"
    /\ clock' = clock + PollInterval
    /\ pc' = "loop"
    /\ UNCHANGED <<op, plan, planned, components, counters, manifest, payload, i,
                   calls, prov, exc, db, status>>

NextPoll ==
    \/ DeployRequest
    \/ LoopTest
    \/ StatusRequest
    \/ Sleep

\* Every await of the coroutine completes: the two requests are bounded by
\* the timeout of the HTTP client, the sleep by its interval
SpecPoll == InitPoll /\ [][NextPoll]_vars /\ WF_vars(NextPoll)

\* ============================================ field documents of a spec
\* The two builders of a field document: metadata_builder._build_field_xml
\* for the bulk package and deploy_service._build_field_metadata for the
\* single-field create. A document is the set of its attributes; an
\* integer attribute is its number, a text or boolean attribute its text.

Attr(name, number, text) == [name |-> name, number |-> number, text |-> text]

NumberAttr(name, value, default) ==
    Attr(name, IF value = JsonMissing THEN default ELSE value.v, "")

\* _strip_custom_suffix and _derive_relationship_name on the field names
\* of the universe
DeriveRelationshipName(field_api_name) ==
    CASE field_api_name = "f__c" -> "f"
      [] field_api_name = "Owner_Id__c" -> "Owner"
      [] OTHER -> field_api_name

\* field.get(a) or field.get(b) or default
FirstGiven(a, b, default) ==
    IF a # "" THEN a ELSE IF b # "" THEN b ELSE default

\* metadata_builder._build_field_xml, lines 72-134
BuildFieldXml(field) ==
    LET relationship_name ==
            FirstGiven(field.relationship_name, "", DeriveRelationshipName(field.api_name))
    IN
    {Attr("fullName", 0, field.api_name), Attr("label", 0, field.label),
     Attr("type", 0, field.type)}
    \cup (CASE field.type = "Text" -> {NumberAttr("length", field.length, 255)}
            [] field.type \in {"Number", "Currency", "Percent"} ->
                 {NumberAttr("precision", field.precision, 18),
                  NumberAttr("scale", field.scale, 2)}
            [] field.type \in {"Lookup", "MasterDetail"} ->
                 {Attr("referenceTo", 0, field.related_to),
                  Attr("relationshipName", 0, relationship_name),
                  Attr("relationshipLabel", 0, relationship_name)}
                 \cup (IF field.type = "Lookup"
                       THEN {Attr("deleteConstraint", 0,
                                  FirstGiven(field.delete_constraint, "", "SetNull"))}
                       ELSE {})
            [] field.type = "Checkbox" -> {Attr("defaultValue", 0, "false")}
            [] field.type = "TextArea" ->
                 {NumberAttr("length", field.length, 255),
                  NumberAttr("visibleLines", field.visible_lines, 3)}
            [] field.type = "LongTextArea" ->
                 {NumberAttr("length", field.length, 32768),
                  NumberAttr("visibleLines", field.visible_lines, 3)}
            [] OTHER -> {})

\* deploy_service._build_field_metadata, lines 77-120
BuildFieldMetadata(field) ==
    LET relationship_name ==
            FirstGiven(field.relationship_name, "", DeriveRelationshipName(field.api_name))
    IN
    {Attr("type", 0, field.type), Attr("label", 0, field.label)}
    \cup (CASE field.type = "Text" -> {NumberAttr("length", field.length, 255)}
            [] field.type \in {"Number", "Currency", "Percent"} ->
                 {NumberAttr("precision", field.precision, 18),
                  NumberAttr("scale", field.scale, 2)}
            [] field.type = "Checkbox" -> {Attr("defaultValue", 0, "false")}
            [] field.type = "LongTextArea" ->
                 {NumberAttr("length", field.length, 32768),
                  NumberAttr("visibleLines", field.visible_lines, 3)}
            [] field.type = "Lookup" ->
                 {Attr("referenceTo", 0, field.related_to),
                  Attr("relationshipName", 0, relationship_name),
                  Attr("deleteConstraint", 0,
                       FirstGiven(field.delete_constraint, "", "SetNull"))}
            [] field.type = "MasterDetail" ->
                 {Attr("referenceTo", 0, field.related_to),
                  Attr("relationshipName", 0, relationship_name)}
            [] OTHER -> {})

GivenNumbers == {JsonMissing} \cup {JsonInt(n) : n \in 1..MaxNumber}

\* Field specs: a key that is not given is JsonMissing or the empty text
FieldSpecs ==
    [api_name : {"f__c", "Owner_Id__c"}, label : {"F"},
     type : {"Text", "Number", "Currency", "Percent", "Checkbox", "TextArea",
             "LongTextArea", "Lookup", "MasterDetail", "Date"},
     length : GivenNumbers, precision : GivenNumbers, scale : {JsonMissing, JsonInt(1)},
     visible_lines : GivenNumbers, related_to : {"A__c"},
     relationship_name : {"", "Rel"}, delete_constraint : {"", "Restrict"}]

NoDocuments == [xml |-> {}, metadata |-> {}]

InitFieldBuild ==
    /\ op = "build_field"
    /\ plan \in FieldSpecs
    /\ pc = "start"
    /\ planned = <<>>
    /\ components = <<>>
    /\ counters = NoDocuments
    /\ manifest = <<>>
    /\ payload = NoPayload
    /\ clock = 0
    /\ i = 1
    /\ calls = <<>>
    /\ prov = <<>>
    /\ exc = "none"
    /\ db = CuratedDb
    /\ status = "none"

\* Both builders applied to the same field spec
BuildField ==
    /\ pc = "start"
    /\ op = "build_field"
    /\ counters' = [xml |-> BuildFieldXml(plan), metadata |-> BuildFieldMetadata(plan)]
    /\ pc' = "done"
    /\ UNCHANGED <<op, plan, planned, components, manifest, payload, clock, i, calls,
                   prov, exc, db, status>>

NextFieldBuild == BuildField

SpecFieldBuild == InitFieldBuild /\ [][NextFieldBuild]_vars

\* ================================================ routers/deploy.py rollback
\* deploy_rollback (lines 259-347) and deploy_analytics_rollback (lines
\* 494-582) have the same structure. Requests for one deployment record run
\* as coroutines of one event loop and interleave at every await; db is the
\* row of crm_deployments, plan the row as it was first and whether the
\* connection row is connected, counters the rollback_result each request
\* holds, calls the invocations of execute_rollback.

Requests == 1..MaxRequests

DeploymentStatuses == {"succeeded", "partial", "failed"}

RollbackStatuses == {"succeeded", "partial", "failed"}

InitRequests ==
    /\ op = "deploy_rollback"
    /\ plan \in [status : DeploymentStatuses, connected : BOOLEAN]
    /\ db = [status |-> plan.status, rollback |-> "none", previous |-> "none"]
    /\ pc = [r \in Requests |-> "start"]
    /\ counters = [r \in Requests |-> "none"]
    /\ planned = <<>>
    /\ components = <<>>
    /\ manifest = <<>>
    /\ payload = NoPayload
    /\ clock = 0
    /\ i = 1
    /\ calls = <<>>
    /\ prov = <<>>
    /\ exc = "none"
    /\ status = "none"

\* lines 267-282: the deployment row is read if its status is succeeded
SelectDeployment(r) ==
    /\ pc[r] = "start"
    /\ pc' = [pc EXCEPT ![r] = IF db.status = "succeeded" THEN "connection"
                                ELSE "rejected"]
    /\ UNCHANGED <<op, plan, planned, components, counters, manifest, payload, clock,
                   i, calls, prov, exc, db, status>>

\* lines 288-305: the connection row is read if it is connected
SelectConnection(r) ==
    /\ pc[r] = "connection"
    /\ pc' = [pc EXCEPT ![r] = IF plan.connected THEN "rollback" ELSE "rejected"]
    /\ UNCHANGED <<op, plan, planned, components, counters, manifest, payload, clock,
                   i, calls, prov, exc, db, status>>

\* lines 307-313: execute_rollback runs and returns a result
ExecuteRollback(r) ==
    /\ pc[r] = "rollback"
    /\ calls' = Append(calls, Call("execute_rollback", r))
    /\ \E result \in RollbackStatuses : counters' = [counters EXCEPT ![r] = result]
    /\ pc' = [pc EXCEPT ![r] = "update"]
    /\ UNCHANGED <<op, plan, planned, components, manifest, payload, clock, i, prov,
                   exc, db, status>>

\* lines 315-330: the row is updated, whatever its status is by now
UpdateDeployment(r) ==
    /\ pc[r] = "update"
    /\ db' = [status |-> "rolled_back", rollback |-> counters[r], previous |-> db.status]
    /\ pc' = [pc EXCEPT ![r] = "done"]
    /\ UNCHANGED <<op, plan, planned, components, counters, manifest, payload, clock,
                   i, calls, prov, exc, status>>

NextRequests ==
    \E r \in Requests :
        \/ SelectDeployment(r)
        \/ SelectConnection(r)
        \/ ExecuteRollback(r)
        \/ UpdateDeployment(r)

SpecRequests == InitRequests /\ [][NextRequests]_vars

\* ================================================================ claims
\* The entries of the components list that answer for the planned bulk
\* component k (the prior component it came from, in a rollback)
PlannedKey(k) == IF op = "execute_rollback" THEN planned[k].src ELSE k

BulkEntriesOf(k) ==
    {e \in 1..Len(components) :
        components[e].origin = "bulk" /\ components[e].idx = PlannedKey(k)}

PayloadFailures == IF payload.shape = "nested" THEN payload.failures ELSE {}

PayloadSuccesses == IF payload.shape = "nested" THEN payload.successes ELSE {}

ForwardDeploys ==
    {"execute_deployment", "execute_workflow_deployment", "execute_analytics_deployment"}

\* C1: in the three forward deployments, once the poll has returned a
\* payload, every planned component that has been resolved is a failure
\* carrying the failure map's error if its name is in the failure map (also
\* when it is in the success map too), a success if it is only in the
\* success map, and, in neither map, a success exactly when the overall
\* status is Succeeded and otherwise a failure with code
\* metadata_deploy_failed; the components are resolved in planned order.
C1_ThreeWayReconciliation ==
    op \in ForwardDeploys =>
        /\ Len(prov) <= Len(planned)
        /\ (pc = "done" /\ payload # NoPayload /\ exc = "none"
                => Len(prov) = Len(planned))
        /\ \A k \in 1..Len(prov) :
              LET r == prov[k]
                  n == r.api_name
              IN  /\ n = planned[k].api_name
                  /\ r.type = planned[k].type
                  /\ n \in PayloadFailures => ~r.success /\ r.error = "Error"
                  /\ n \notin PayloadFailures /\ n \in PayloadSuccesses => r.success
                  /\ n \notin PayloadFailures /\ n \notin PayloadSuccesses =>
                        /\ r.success <=> payload.status = "Succeeded"
                        /\ ~r.success => r.error = "metadata_deploy_failed"

\* A report listed in both maps of a Failed deploy is resolved as a failure
\* next to a folder listed in neither
C1_Witness ==
    /\ op = "execute_analytics_deployment"
    /\ pc = "done"
    /\ payload.status = "Failed"
    /\ \E k \in 1..Len(prov) :
          /\ prov[k].api_name \in PayloadFailures \cap PayloadSuccesses
          /\ ~prov[k].success
    /\ \E k \in 1..Len(prov) :
          /\ prov[k].api_name \notin PayloadFailures \cup PayloadSuccesses
          /\ prov[k].error = "metadata_deploy_failed"

\* C2: the status of every returned result, of all six functions, is
\* failed when the components list is empty or holds no successful entry,
\* succeeded when it is non-empty and every entry is successful, and
\* partial otherwise.
C2_Aggregation ==
    pc = "done" =>
        LET good == {k \in 1..Len(components) : components[k].success} IN
        /\ status \in {"failed", "succeeded", "partial"}
        /\ status = "failed" <=> good = {}
        /\ status = "succeeded" <=> components # <<>> /\ good = 1..Len(components)
        /\ components = <<>> => status = "failed"

\* A rollback returning nothing because the prior result held nothing to
\* undo
C2_Witness ==
    /\ op \in {"execute_rollback", "execute_analytics_rollback"}
    /\ pc = "done"
    /\ plan # <<>>
    /\ components = <<>>
    /\ status = "failed"

\* C3, as claimed: whenever execute_deployment returns, every planned bulk
\* component appears exactly once in the components list.
C3_EachPlannedComponentOnce ==
    op = "execute_deployment" /\ pc = "done" =>
        \A k \in 1..Len(planned) : Cardinality(BulkEntriesOf(k)) = 1

\* The package was submitted and no terminal payload ever came back: the
\* submit call or a status poll raised a remote-request error
SubmitOrPollFailed ==
    /\ payload = NoPayload
    /\ \E e \in 1..Len(components) :
          /\ components[e].origin = "bulk"
          /\ components[e].error \in RemoteErrorCodes \cup {"salesforce_invalid_response"}

\* C4, as claimed: when the submit call or a status poll fails, the
\* function does not raise, and the result it returns holds for each
\* planned bulk component one entry of its own, unsuccessful, with the
\* error of the remote failure.
C4_BulkFailureIsReturnedPerComponent ==
    SubmitOrPollFailed =>
        /\ pc # "raised"
        /\ \A k \in 1..Len(planned) :
              /\ Cardinality(BulkEntriesOf(k)) = 1
              /\ \A e \in BulkEntriesOf(k) :
                    /\ ~components[e].success
                    /\ components[e].api_name = planned[k].api_name
                    /\ components[e].error = exc

TimedOut ==
    \E e \in 1..Len(components) : components[e].error = "metadata_deploy_timeout"

VerificationCalls ==
    {c \in 1..Len(calls) :
        calls[c].fn \in {"resolve_field_id", "tooling_create_custom_field"}}

\* C5: when the deadline passes without a terminal status, every planned
\* bulk component has one entry of its own in the components list,
\* unsuccessful and with code metadata_deploy_timeout, and no field-id
\* lookup or fallback create has been made for a planned component.
C5_PollTimeout ==
    TimedOut =>
        /\ payload = NoPayload
        /\ prov = <<>>
        /\ \A k \in 1..Len(planned) :
              /\ Cardinality(BulkEntriesOf(k)) = 1
              /\ \A e \in BulkEntriesOf(k) :
                    /\ ~components[e].success
                    /\ components[e].type = planned[k].type
                    /\ components[e].api_name = planned[k].api_name
                    /\ components[e].error = "metadata_deploy_timeout"
        /\ \A e \in 1..Len(components) :
              components[e].origin = "bulk" => ~components[e].success
        /\ \A c \in VerificationCalls : calls[c].arg.name \notin PlannedNames

\* An object and its field, both timed out, in a returned result
C5_Witness ==
    /\ op = "execute_deployment"
    /\ pc = "done"
    /\ TimedOut
    /\ \E k \in 1..Len(planned) : planned[k].type \in FieldLike
    /\ \A k \in 1..Len(planned) : BulkEntriesOf(k) # {}

AppendFields == StandardFieldList(plan.standard_object_fields)

\* C6, as claimed: whenever execute_deployment ends after a valid plan,
\* every standard-object field with a non-empty name has had exactly one
\* create attempt and has exactly one entry in the components list.
C6_FieldAppendExhaustive ==
    /\ op = "execute_deployment"
    /\ ValidateCustomObjectPlan(plan) = {}
    /\ pc \in {"done", "raised"}
    => \A k \in 1..Len(AppendFields) :
          AppendFields[k].field # "" =>
             LET full_name == <<AppendFields[k].object, AppendFields[k].field>> IN
             /\ Cardinality({c \in 1..Len(calls) :
                    /\ calls[c].fn = "tooling_create_custom_field"
                    /\ calls[c].arg = [name |-> full_name, src |-> k]}) = 1
             /\ Cardinality({e \in 1..Len(components) :
                    /\ components[e].origin = "append"
                    /\ components[e].idx = k
                    /\ components[e].api_name = full_name}) = 1

AutoMapStep == op = "execute_deployment" /\ pc = "reconcile" /\ i > Len(planned)

\* C7: the auto-mapping step, whether its upsert succeeds or fails, leaves
\* the components list, the counters and the status as they were and hands
\* control to the field-append loop without an exception; nothing but this
\* step writes the stored mappings.
C7_AutoMapNeverChangesOutcome ==
    [][/\ AutoMapStep =>
             /\ components' = components
             /\ counters' = counters
             /\ status' = status
             /\ exc' = exc
             /\ pc' = "append"
       /\ ~AutoMapStep => db' = db]_vars

\* A deployment that returned succeeded although the upsert had failed
C7_Witness ==
    /\ pc = "done"
    /\ status = "succeeded"
    /\ counters.objects >= 1
    /\ \E c \in 1..Len(calls) : calls[c].fn = "auto_map" /\ calls[c].arg.failed

\* C8: a row stored before the call still maps every key it held to the
\* value it held, and every key added is the name of a field created on
\* that object, mapped to itself.
C8_UpsertPreservesCuratedMappings ==
    \A o \in DOMAIN db :
        CuratedDb[o].present =>
            LET old == CuratedDb[o].field_mappings
                new == db[o].field_mappings
            IN  /\ db[o].present
                /\ DOMAIN old \subseteq DOMAIN new
                /\ \A key \in DOMAIN old : new[key] = old[key]
                /\ \A key \in DOMAIN new \ DOMAIN old :
                      /\ new[key] = key
                      /\ \E e \in 1..Len(components) :
                            /\ components[e].success
                            /\ components[e].type \in FieldLike
                            /\ components[e].api_name = o \o key

\* The curated row of A__c after A__c, A__c.f__c and A__c.r__c were
\* created: f__c keeps its curated target, r__c is new
C8_Witness ==
    /\ db[<<"A__c">>].is_active
    /\ db[<<"A__c">>].field_mappings[<<"f__c">>] = <<"Curated__c">>
    /\ <<"r__c">> \in DOMAIN db[<<"A__c">>].field_mappings
    /\ \E e \in 1..Len(components) :
          components[e].success /\ components[e].api_name = <<"A__c", "f__c">>

FieldCalls ==
    {c \in 1..Len(calls) : calls[c].fn \in {"resolve_field_id", "tooling_delete"}}

\* C9: in execute_rollback every field lookup and delete, every name of
\* the destructive manifest (which is what gets submitted) and every entry
\* of the rollback result belongs to a component that was successful in
\* the prior result.
C9_RollbackTouchesOnlySuccessful ==
    op = "execute_rollback" =>
        /\ \A c \in FieldCalls :
              /\ plan[calls[c].arg.src].success
              /\ plan[calls[c].arg.src].type \in FieldLike
              /\ plan[calls[c].arg.src].api_name = calls[c].arg.name
        /\ \A m \in 1..Len(manifest) :
              \E k \in 1..Len(plan) :
                 /\ plan[k].success
                 /\ plan[k].type = "custom_object"
                 /\ plan[k].api_name = manifest[m]
        /\ \A c \in 1..Len(calls) :
              calls[c].fn = "metadata_deploy" => calls[c].arg = manifest
        /\ \A e \in 1..Len(components) :
              /\ plan[components[e].idx].success
              /\ plan[components[e].idx].type = components[e].type
              /\ plan[components[e].idx].api_name = components[e].api_name

\* A rollback that deleted a field while the prior result also held a
\* failed component
C9_Witness ==
    /\ op = "execute_rollback"
    /\ pc = "done"
    /\ \E k \in 1..Len(plan) : ~plan[k].success
    /\ \E c \in 1..Len(calls) : calls[c].fn = "tooling_delete"

\* The last place in the prior result of a successful object named n
LastObject(n) ==
    CHOOSE k \in 1..Len(plan) :
        /\ plan[k].success /\ plan[k].type = "custom_object" /\ plan[k].api_name = n
        /\ \A j \in (k + 1)..Len(plan) :
              ~(plan[j].success /\ plan[j].type = "custom_object"
                    /\ plan[j].api_name = n)

\* C10: in execute_rollback no field lookup or delete follows the
\* submission of the destructive package, the field-like components are
\* visited from the last of the prior result to the first, and the names
\* of the destructive manifest and the object entries of the result run
\* from the last object of the prior result to the first.
C10_RollbackOrdering ==
    op = "execute_rollback" =>
        /\ \A a, b \in 1..Len(calls) :
              a < b /\ calls[a].fn = "metadata_deploy" => b \notin FieldCalls
        /\ \A a, b \in FieldCalls :
              a < b => calls[a].arg.src >= calls[b].arg.src
        /\ \A a, b \in 1..Len(components) :
              a < b =>
                 /\ components[a].origin = "bulk" => components[b].origin = "bulk"
                 /\ components[a].idx > components[b].idx
                       \/ components[a].origin # components[b].origin
        /\ pc # "start" =>
              {manifest[m] : m \in 1..Len(manifest)} = ObjectNamesForDelete(plan)
        /\ \A a, b \in 1..Len(manifest) :
              a < b => LastObject(manifest[a]) > LastObject(manifest[b])

\* Two objects destroyed after a rollback of [A__c, B__c]: B__c is first
C10_Witness ==
    /\ op = "execute_rollback"
    /\ pc = "done"
    /\ Len(manifest) = 2
    /\ manifest[1] = <<"B__c">>
    /\ \E e \in 1..Len(components) : components[e].success

\* C11, as claimed: when execute_rollback returns, every successful
\* component of the prior result whose type is not custom_object,
\* custom_field or relationship has a failure entry in the rollback result
\* with the unsupported_component error.
C11_UnsupportedComponentIsReported ==
    op = "execute_rollback" /\ pc = "done" =>
        \A k \in 1..Len(plan) :
            plan[k].success /\ plan[k].type \notin FieldLike \cup {"custom_object"} =>
                \E e \in 1..Len(components) :
                    /\ components[e].idx = k
                    /\ ~components[e].success
                    /\ components[e].error = "unsupported_component"

\* What the validator of the function invoked returns for its plan
PlanErrors ==
    CASE op = "execute_deployment" -> ValidateCustomObjectPlan(plan)
      [] op = "execute_workflow_deployment" -> ValidateWorkflowPlan(plan)
      [] op = "execute_analytics_deployment" -> ValidateAnalyticsPlan(plan)
      [] OTHER -> {}

\* C12: in the three forward deployments, a plan for which the validator
\* returns errors ends in the invalid_deploy_plan exception with nothing
\* compiled, no call made to a collaborator, no component recorded and the
\* stored mappings untouched.
C12_InvalidPlanNeverReachesRemote ==
    op \in ForwardDeploys /\ PlanErrors # {} =>
        /\ pc \in {"start", "raised"}
        /\ pc = "raised" => exc = "invalid_deploy_plan"
        /\ calls = <<>>
        /\ manifest = <<>>
        /\ planned = <<>>
        /\ components = <<>>
        /\ payload = NoPayload
        /\ db = CuratedDb
        /\ status = "none"

\* A schema plan rejected for an unnamed field of A__c, an object it
\* could otherwise have deployed
C12_Witness ==
    /\ op = "execute_deployment"
    /\ pc = "raised"
    /\ exc = "invalid_deploy_plan"
    /\ \E k \in 1..Len(plan.custom_objects) :
          /\ plan.custom_objects[k].api_name = "A__c"
          /\ plan.custom_objects[k].fields = <<"">>

\* C13, as claimed: for a plan that passed validation execute_deployment
\* never emits an invalid_plan component.
C13_ValidPlanHasNoInvalidPlanComponent ==
    op = "execute_deployment" /\ ValidateCustomObjectPlan(plan) = {} =>
        \A e \in 1..Len(components) : components[e].error # "invalid_plan"

\* Every composite_upsert call made so far failed at call level
AllCallsFailed == \A k \in 1..Len(prov) : prov[k].raised

SyntheticFailure(result) ==
    /\ ~result.success
    /\ result.id = NoId
    /\ result.errors # <<>>

\* What C14 says of a push in which every call failed
TotalFailureResult ==
    /\ status = "failed"
    /\ Len(components) = Len(plan)
    /\ \A e \in 1..Len(components) : SyntheticFailure(components[e])
    /\ counters.records_failed = Len(plan)
    /\ counters.records_succeeded = 0

RECURSIVE Offset(_)
Offset(k) == IF k <= 1 THEN 0 ELSE Offset(k - 1) + Len(planned[k - 1])

AllSucceeded == \A e \in 1..Len(components) : components[e].success

AllFailed == \A e \in 1..Len(components) : ~components[e].success

\* C16, as claimed: the status is succeeded exactly when every record
\* succeeded, failed exactly when every record failed and partial
\* otherwise, the empty record list included, and the two counts add up to
\* the number of result entries.
C16_StatusRuleAsClaimed ==
    op = "push_records" /\ pc = "done" =>
        /\ status = "succeeded" <=> AllSucceeded
        /\ status = "failed" <=> AllFailed
        /\ status = "partial" <=> ~AllSucceeded /\ ~AllFailed
        /\ counters.records_succeeded + counters.records_failed = Len(components)

\* C16, amended: the status is succeeded exactly when every result entry
\* succeeded, which includes the empty record list; failed exactly when
\* there is at least one entry and every entry failed; partial otherwise;
\* the two counts add up to the number of result entries.
C16_StatusRule ==
    op = "push_records" /\ pc = "done" =>
        /\ status = "succeeded" <=> AllSucceeded
        /\ status = "failed" <=> AllFailed /\ components # <<>>
        /\ status = "partial" <=> ~AllSucceeded /\ ~AllFailed
        /\ components = <<>> => status = "succeeded"
        /\ counters.records_succeeded = CountSuccess(components)
        /\ counters.records_succeeded + counters.records_failed = Len(components)

\* The push of an empty record list returned succeeded
C16_Witness ==
    /\ op = "push_records"
    /\ pc = "done"
    /\ plan = <<>>
    /\ components = <<>>
    /\ status = "succeeded"

\* The planned fields of an entry that carry a name, in order
RECURSIVE NamedPlanFields(_)
NamedPlanFields(plan_fields) ==
    IF plan_fields = <<>> THEN <<>>
    ELSE (IF Head(plan_fields).api_name # "" THEN <<Head(plan_fields)>> ELSE <<>>)
         \o NamedPlanFields(Tail(plan_fields))

\* The findings about one object, in order
RECURSIVE FindingsAbout(_, _)
FindingsAbout(findings, object_name) ==
    IF findings = <<>> THEN <<>>
    ELSE (IF Head(findings).object = object_name THEN <<Head(findings)>> ELSE <<>>)
         \o FindingsAbout(Tail(findings), object_name)

InSnapshot(object_name) ==
    /\ object_name \in DOMAIN plan.topology_snapshot
    /\ plan.topology_snapshot[object_name].exists

\* C17, as claimed: for a planned custom object absent from the snapshot
\* check_conflicts emits a green finding for the object and a green finding
\* for each of its planned fields, and nothing else about it.
C17_AbsentObjectAllGreen ==
    op = "check_conflicts" /\ pc = "done" =>
        \A k \in 1..Len(plan.deployment_plan.custom_objects) :
            LET custom_object == plan.deployment_plan.custom_objects[k]
                named == NamedPlanFields(custom_object.fields)
                about == FindingsAbout(components, custom_object.api_name)
            IN  ~InSnapshot(custom_object.api_name) =>
                   /\ Len(about) = 1 + Len(named)
                   /\ \A j \in 1..Len(about) : about[j].severity = "green"

\* Pairs (plan type, snapshot type) that name the same type
SameTypePairs ==
    {<<"Text", "string">>, <<"Text", "String">>, <<"Number", "double">>,
     <<"LongTextArea", "textarea">>}

\* The severity C18 gives a planned field of an object that exists
ExpectedFieldSeverity(object_name, plan_field) ==
    LET existing == {f \in {plan.topology_snapshot[object_name].fields[x] :
                               x \in 1..Len(plan.topology_snapshot[object_name].fields)} :
                        f.name = plan_field.api_name}
    IN  IF existing = {} THEN "green"
        ELSE IF \E f \in existing : <<plan_field.type, f.type>> \in SameTypePairs
        THEN "yellow"
        ELSE "red"

\* C18: for a planned custom object present in the snapshot the findings
\* about it are one red finding for the object followed by one finding per
\* named planned field, in plan order: green if the snapshot has no field
\* of that name, yellow if it has one of the same type after
\* normalization, red if it has one of another type.
C18_PresentObjectFieldFindings ==
    op = "check_conflicts" /\ pc = "done" =>
        \A k \in 1..Len(plan.deployment_plan.custom_objects) :
            LET custom_object == plan.deployment_plan.custom_objects[k]
                named == NamedPlanFields(custom_object.fields)
                about == FindingsAbout(components, custom_object.api_name)
            IN  InSnapshot(custom_object.api_name) =>
                   /\ Len(about) = 1 + Len(named)
                   /\ about[1].severity = "red"
                   /\ about[1].category = "object_name"
                   /\ \A j \in 1..Len(named) :
                         /\ about[1 + j].category = "field_name"
                         /\ about[1 + j].field = named[j].api_name
                         /\ about[1 + j].severity =
                               ExpectedFieldSeverity(custom_object.api_name, named[j])

\* A__c exists with f__c of type "String": the planned Text field is
\* yellow, the planned Number field of the same name is red
C18_Witness ==
    /\ op = "check_conflicts"
    /\ pc = "done"
    /\ InSnapshot("A__c")
    /\ \E f \in 1..Len(plan.topology_snapshot.A__c.fields) :
          plan.topology_snapshot.A__c.fields[f].type = "String"
    /\ \E e \in 1..Len(components) :
          /\ components[e].object = "A__c"
          /\ components[e].category = "field_name"
          /\ components[e].severity = "yellow"
    /\ \E e \in 1..Len(components) :
          /\ components[e].object = "A__c"
          /\ components[e].category = "field_name"
          /\ components[e].severity = "red"

HasFinding(severity) ==
    \E e \in 1..Len(components) : components[e].severity = severity

\* C19: overall_severity is red exactly when a finding is red, yellow
\* exactly when none is red and one is yellow, green otherwise, and the
\* three counts are the numbers of findings of each severity and add up to
\* the number of findings.
C19_SeverityAggregation ==
    op = "check_conflicts" /\ pc = "done" =>
        /\ status = "red" <=> HasFinding("red")
        /\ status = "yellow" <=> ~HasFinding("red") /\ HasFinding("yellow")
        /\ status = "green" <=> ~HasFinding("red") /\ ~HasFinding("yellow")
        /\ counters.green_count = SeverityCount(components, "green")
        /\ counters.yellow_count = SeverityCount(components, "yellow")
        /\ counters.red_count = SeverityCount(components, "red")
        /\ counters.green_count + counters.yellow_count + counters.red_count
              = Len(components)

\* Green and yellow findings without a red one: the overall severity is
\* yellow
C19_Witness ==
    /\ op = "check_conflicts"
    /\ pc = "done"
    /\ status = "yellow"
    /\ counters.green_count >= 2
    /\ counters.yellow_count >= 2

\* C20, as claimed: once execute_deployment has compiled a valid plan, the
\* members of package.xml are the fully-qualified names of the planned bulk
\* components (each custom object and each of its fields and relationships
\* as Object.Field), each listed exactly once.
C20_ManifestListsPlannedComponents ==
    op = "execute_deployment" /\ pc = "submit" =>
        /\ {manifest[k] : k \in 1..Len(manifest)}
              = {planned[k].api_name : k \in 1..Len(planned)}
        /\ \A a, b \in 1..Len(manifest) : manifest[a] = manifest[b] => a = b

\* The reports of a plan that name the folder of report k after stripping
\* and do not carry pre_existing: true
ReportsLackingFolderOf(p, k) ==
    {r \in 1..Len(p.reports) :
        /\ Strip(p.reports[r].folder) = Strip(p.reports[k].folder)
        /\ p.reports[r].pre_existing # "true"}

\* C21, as claimed: adding a valid report folder whose api_name matches the
\* folder of a report with the folder error decreases the number of errors
\* by exactly one.
C21_AddFolderRemovesExactlyOne ==
    op = "validate_analytics_plan" /\ pc = "done" /\ status = "folder_added" =>
        Len(components) = counters.errors_before - 1

\* C21: validate_analytics_plan reports the folder error for a report
\* exactly when its stripped folder is non-empty, is the stripped api_name
\* of no report folder of the plan, and the report does not carry
\* pre_existing: true. Adding a valid folder of that name removes the
\* folder error of every report that names it without pre_existing: true,
\* one error each, and nothing else; setting pre_existing: true on the
\* report instead removes its folder error (and the error about a
\* pre_existing that was not a boolean, if it had one).
C21_ReportFolderIntegrity ==
    op = "validate_analytics_plan" =>
        /\ pc = "validated" =>
              \A k \in 1..Len(plan.reports) :
                  HasFolderError(components, k) <=>
                      /\ Strip(plan.reports[k].folder) # ""
                      /\ \A f \in 1..Len(plan.report_folders) :
                            Strip(plan.report_folders[f].api_name)
                                # Strip(plan.reports[k].folder)
                      /\ plan.reports[k].pre_existing # "true"
        /\ pc = "done" /\ status = "folder_added" =>
              /\ ~HasFolderError(components, i)
              /\ Len(components) = counters.errors_before
                                     - Cardinality(ReportsLackingFolderOf(planned[1], i))
        /\ pc = "done" /\ status = "pre_existing_set" =>
              /\ ~HasFolderError(components, i)
              /\ Len(components) = counters.errors_before
                    - (IF planned[1].reports[i].pre_existing = "string" THEN 2 ELSE 1)

\* Two reports name the same missing folder: adding it removes two errors
C21_Witness ==
    /\ op = "validate_analytics_plan"
    /\ pc = "done"
    /\ status = "folder_added"
    /\ Len(plan.reports) = 2
    /\ Len(components) = counters.errors_before - 2

\* C22, as claimed: a Number, Currency or Percent field that gives
\* precision and scale as integers has an error on precision or scale
\* exactly when precision < scale.
C22_PrecisionScaleRule ==
    op = "validate_custom_object_plan" /\ pc = "done" =>
        LET field == plan.custom_objects[1].fields[1]
            field_path == <<"custom_objects", 0, "fields", 0>>
        IN  /\ field.type \in {"Number", "Currency", "Percent"}
            /\ field.precision.kind = "int"
            /\ field.scale.kind = "int"
            => ((\E e \in 1..Len(components) :
                    components[e].field \in {field_path \o <<"precision">>,
                                             field_path \o <<"scale">>})
                <=> field.precision.v < field.scale.v)

CallsAbout(fn, k) ==
    {c \in 1..Len(calls) :
        /\ calls[c].fn = fn
        /\ calls[c].arg.src = k
        /\ calls[c].arg.name = planned[k].api_name}

SuccessfulOfType(type) ==
    {e \in 1..Len(components) : components[e].type = type /\ components[e].success}

\* C23: in execute_deployment, as long as no remote call has raised, a
\* planned field or relationship that reconciliation resolved as failed is
\* reported as resolved, without a field-id lookup or a create call; one
\* resolved as successful gets one lookup and is reported successful only
\* with the identifier the lookup found and no create call, or after one
\* fallback create that answered success; when the fallback create answers
\* failure the component is reported failed with the error of the create
\* response. fields_created and relationships_created count exactly the
\* components of their type that are reported successful.
C23_FieldVerificationFallback ==
    op = "execute_deployment" /\ exc = "none" =>
        /\ \A k \in 1..Len(prov) :
              planned[k].type \in FieldLike =>
                  LET lookups == CallsAbout("resolve_field_id", k)
                      creates == CallsAbout("tooling_create_custom_field", k)
                  IN  /\ Cardinality(BulkEntriesOf(k)) = 1
                      /\ \A e \in BulkEntriesOf(k) :
                            /\ ~prov[k].success =>
                                  /\ lookups = {}
                                  /\ creates = {}
                                  /\ components[e] = prov[k]
                            /\ prov[k].success =>
                                  /\ Cardinality(lookups) = 1
                                  /\ Cardinality(creates) <= 1
                                  /\ components[e].sfdc_id = "qid" => creates = {}
                                  /\ components[e].success =>
                                        \/ creates = {} /\ components[e].sfdc_id = "qid"
                                        \/ creates # {} /\ components[e].sfdc_id = "tid"
                                  /\ ~components[e].success =>
                                        /\ creates # {}
                                        /\ components[e].error \in
                                              {ExtractToolingError(resp) :
                                                  resp \in {x \in ToolingResponses : ~x.success}}
        /\ counters.fields = Cardinality(SuccessfulOfType("custom_field"))
        /\ counters.relationships = Cardinality(SuccessfulOfType("relationship"))

\* A returned result in which one field was found by the lookup and a
\* relationship, resolved as successful, failed in the fallback create
C23_Witness ==
    /\ op = "execute_deployment"
    /\ pc = "done"
    /\ exc = "none"
    /\ \E e \in 1..Len(components) :
          /\ components[e].origin = "bulk"
          /\ components[e].type = "custom_field"
          /\ components[e].sfdc_id = "qid"
    /\ \E k \in 1..Len(prov) :
          /\ prov[k].success
          /\ prov[k].type = "relationship"
          /\ \E e \in BulkEntriesOf(k) : ~components[e].success
    /\ counters.fields = 1
    /\ counters.relationships = 0

\* The successful field-like components of the prior result
PriorFieldLike ==
    {k \in 1..Len(plan) : plan[k].success /\ plan[k].type \in FieldLike}

\* The part of the name before the first "." names a successful custom
\* object of the prior result
ParentDestroyed(k) ==
    /\ HasDot(plan[k].api_name)
    /\ \E j \in 1..Len(plan) :
          /\ plan[j].success
          /\ plan[j].type = "custom_object"
          /\ plan[j].api_name = <<plan[k].api_name[1]>>

FieldEntriesOf(k) ==
    {e \in 1..Len(components) :
        components[e].origin = "field" /\ components[e].idx = k}

RollbackCallsFor(k) == {c \in FieldCalls : calls[c].arg.src = k}

\* C24: in execute_rollback no field-id query and no delete call is ever
\* made for a successful field-like component whose parent object is among
\* the successful custom objects of the prior result, and once the field
\* loop is over that component has exactly one entry, marked skipped; every
\* other successful field-like component has exactly one entry, not
\* skipped, from one individual attempt (at most one query and at most one
\* delete).
C24_CascadeSkip ==
    op = "execute_rollback" =>
        \A k \in PriorFieldLike :
            /\ Cardinality(FieldEntriesOf(k)) <= 1
            /\ pc \notin {"start", "fields"} => Cardinality(FieldEntriesOf(k)) = 1
            /\ ParentDestroyed(k) =>
                  /\ RollbackCallsFor(k) = {}
                  /\ \A e \in FieldEntriesOf(k) : components[e].skipped
            /\ ~ParentDestroyed(k) =>
                  /\ \A e \in FieldEntriesOf(k) : ~components[e].skipped
                  /\ \A fn \in {"resolve_field_id", "tooling_delete"} :
                        Cardinality({c \in RollbackCallsFor(k) : calls[c].fn = fn}) <= 1

\* A__c.f__c has been skipped because A__c is destroyed, and the destructive
\* package for A__c has been submitted
C24_Witness ==
    /\ op = "execute_rollback"
    /\ pc = "done"
    /\ \E c \in 1..Len(calls) : calls[c].fn = "metadata_deploy"
    /\ \E k \in PriorFieldLike :
          /\ ParentDestroyed(k)
          /\ RollbackCallsFor(k) = {}
          /\ \E e \in FieldEntriesOf(k) : components[e].skipped

\* C28, as claimed: in the result of execute_rollback a field-like
\* component skipped because of its parent object is reported successful
\* only if the destruction of that parent object is reported successful.
C28_SkippedFieldFollowsParent ==
    op = "execute_rollback" /\ pc = "done" =>
        \A e \in 1..Len(components) :
            components[e].origin = "field" /\ components[e].skipped
                /\ components[e].success =>
                    \E o \in 1..Len(components) :
                        /\ components[o].origin = "bulk"
                        /\ components[o].api_name = <<components[e].api_name[1]>>
                        /\ components[o].success

PollFinished == pc \in {"returned", "raised"}

\* What holds of the poll loop in every state
PollLoopSafe ==
    op = "metadata_deploy_and_poll" =>
        /\ pc = "returned" =>
              /\ payload.status \in {"Succeeded", "Failed", "Canceled"}
              /\ exc = "none"
        /\ pc \in {"sleep", "loop", "status"} /\ i > 0 =>
              payload.status \notin {"Succeeded", "Failed", "Canceled"}
        /\ exc = "metadata_deploy_timeout" =>
              pc = "raised" /\ clock >= counters.deadline
        /\ i * PollInterval <= Timeout

\* A step that makes a status request starts before the deadline and,
\* unless it is the first, one interval after the previous request ended
PollStep ==
    i' = i + 1 =>
        /\ pc = "status"
        /\ clock < counters.deadline
        /\ i > 0 => clock = counters.last_end + PollInterval

\* C25: after the submit, metadata_deploy_and_poll makes its status
\* requests one interval apart and only before the deadline, returns the
\* payload of the first request whose status is Succeeded, Failed or
\* Canceled and nothing else, takes no step after it has returned or
\* raised, raises the timeout error only once the deadline has passed, and
\* always ends by returning or raising.
C25_PollLoop ==
    /\ []PollLoopSafe
    /\ [][PollStep /\ ~PollFinished]_vars
    /\ <>PollFinished

\* A terminal payload returned by the third status request
C25_Witness ==
    /\ op = "metadata_deploy_and_poll"
    /\ pc = "returned"
    /\ i = 3
    /\ payload.status = "Canceled"

\* C26, as claimed: in execute_deployment nothing about a component is
\* decided after the auto-mapping upsert has run: every create call of the
\* deployment comes before the auto-mapping call.
C26_AutoMapAfterAllOutcomes ==
    op = "execute_deployment" =>
        \A a, c \in 1..Len(calls) :
            calls[a].fn = "auto_map" /\ calls[c].fn = "tooling_create_custom_field"
                => c < a

\* C27, as claimed: for every field spec the attributes and values of the
\* field document of the bulk package (without its fullName, which the
\* single-field create passes beside the document) are those of the
\* document of the single-field create.
C27_SameFieldDocuments ==
    op = "build_field" /\ pc = "done" =>
        {a \in counters.xml : a.name # "fullName"} = counters.metadata

\* C29, as claimed: whatever the interleaving of the rollback requests for
\* one deployment record, execute_rollback is invoked at most once.
C29_AtMostOneRollback ==
    op = "deploy_rollback" =>
        Cardinality({c \in 1..Len(calls) : calls[c].fn = "execute_rollback"}) <= 1

\* C30, as claimed: whenever the record is rolled_back, it was succeeded
\* just before, and the rollback result stored with it has status
\* succeeded.
C30_RolledBackMeansUndone ==
    op = "deploy_rollback" /\ db.status = "rolled_back" =>
        /\ db.previous = "succeeded"
        /\ db.rollback = "succeeded"

====
